---------------------------- MODULE Spec2Model ----------------------------
(***************************************************************************)
(* Verification model of the AM numeric facilities (namespace am::num):    *)
(*   rounded<T,RoundingMethod> with the round_to_nearest<T> policy         *)
(*                                               (include/rounded.h),      *)
(*   angle<Turn> with its unit conversions       (include/angle.h),        *)
(*   approx_equal                                (include/equality.h).     *)
(*                                                                         *)
(* Number types.  "int" is a signed integral type; its values are plain    *)
(* integers.  "flt" is a floating type.  In the rounded<> part a "flt"     *)
(* value is held as a numerator over Scale("flt") = 2^FracBits, so that    *)
(* one grid step stands for std::numeric_limits<T>::epsilon(); an "int"    *)
(* value is a numerator over Scale("int") = 1.  Signed overflow has no     *)
(* defined behaviour in C++: an operation whose raw or corrected result is *)
(* not representable (outside -MaxVal..MaxVal) has no successor state.     *)
(* In the angle<> part every number is a record [m, e] that stands for     *)
(* m * 2^e: an "int" value has e = 0, a "flt" value is a binary floating   *)
(* number of Precision significant bits (m odd or zero), and every         *)
(* floating operation rounds its exact result to nearest, ties to even.    *)
(* The exponent range of "flt" and the width of "int" are not bounded      *)
(* there: the angles handed in stay far from both limits.                  *)
(***************************************************************************)
EXTENDS Integers, Sequences, FiniteSets, TLC

VARIABLES
    T,          \* rounded<T,...>: the number type of the rounded object
    rnd,        \* the rounded object: [v |-> v_, unit |-> unit_, cu |-> the
                \* unit its policy was constructed with (history)]
    last,       \* the last mutating operation on rnd, with its raw result
    res,        \* the last non-mutating operator, with what it returned
    remByZero,  \* TRUE once round_to_nearest computed remainder(x, 0)
    ae,         \* approx_equal(a, b, tolerance): the call and what it returned
    ang,        \* the angle object: [unit, kind |-> Turn::type, v |-> v_]
    acall,      \* the last call on ang: its arguments and what it returned
    nmut,       \* the assigning arithmetic operations applied to ang so far
    rg,         \* approx_equal on two ranges: the call and its loop
    con,        \* a constant<T> object and the last call on it
    rni,        \* a rounded<T, round_to_nearest_int> object and the last call
    cp,         \* an object, its copy and the last call on one of them
    cnt,        \* a counting loop over rnd: its bound and its position
    dq,         \* a dual quaternion, how it was made and the last call on it
    sq,         \* a sequence generator that is being iterated
    qty         \* two quantity<> operands and the last operator applied

varsR == <<T, rnd, last, res, remByZero>>

varsE == <<ae>>

varsA == <<ang, acall>>

varsG == <<rg>>

varsN == <<nmut>>

varsK == <<con>>

varsI == <<rni>>

varsC == <<cp>>

varsL == <<cnt>>

varsD == <<dq>>

varsS == <<sq>>

varsQ == <<qty>>

vars ==
    <<T, rnd, last, res, remByZero, ae, ang, acall, nmut, rg, con, rni, cp, cnt,
      dq, sq, qty>>

----------------------------------------------------------------------------
(* Bounds of the model.                                                    *)

\* representable numerators of a rounded<> value: -MaxVal .. MaxVal
MaxVal == 8
\* largest unit handed to the round_to_nearest constructor
MaxUnit == 3
\* plain-number operands of the rounded<> operators: -MaxArg .. MaxArg
MaxArg == 3
\* fractional bits of the "flt" grid of the rounded<> part
FracBits == 1
\* width in bits of the unsigned type handed to approx_equal
UWidth == 3
\* signed operands of approx_equal: -MaxA .. MaxA
MaxA == 4
\* significant bits of the "flt" type of the angle<> part
Precision == 6
\* most assigning arithmetic operations applied to one angle
MaxOps == 2
\* values wrapped by constant<T>: -MaxConst .. MaxConst
MaxConst == 8
\* longest range handed to approx_equal
MaxLen == 2
\* elements of the ranges handed to approx_equal: 0 .. MaxElem
MaxElem == 2
\* components of a dual quaternion: -MaxComp, 0, MaxComp
MaxComp == 1
\* first and last element of a linear sequence: 0 .. MaxTerm
MaxTerm == 20
\* step of a linear sequence: -MaxStride .. MaxStride, not 0
MaxStride == 2
\* the linear sequences a repeated sequence is built from run between 1
\* and at most MaxPart in steps of 1 or -1
MaxPart == 8
\* largest repeat count of a repeated sequence
MaxRepeat == 2
\* finite quantities: 0 .. MaxQty
MaxQty == 10

----------------------------------------------------------------------------
(* Arithmetic of the built-in types.                                       *)

Abs(n) == IF n < 0 THEN -n ELSE n

Sign(n) == IF n < 0 THEN -1 ELSE IF n > 0 THEN 1 ELSE 0

Pow2(n) == IF n <= 0 THEN 1 ELSE 2^n

\* built-in integer division: the quotient is truncated towards zero
CDiv(a, b) == Sign(a) * Sign(b) * (Abs(a) \div Abs(b))

\* built-in integer %: the result has the sign of the dividend
CMod(a, b) == a - b * CDiv(a, b)

\* NearestQuotient with ties rounded up instead of to even
NearestQuotientHalfUp(x, u) ==
    LET q == x \div u
        r == x - q * u
    IN  IF 2 * r < u THEN q ELSE q + 1

\* the integer nearest to x/u, ties to the even one (u > 0)
NearestQuotient(x, u) ==
    LET q == x \div u
        r == x - q * u
    IN  IF 2 * r < u THEN q
        ELSE IF 2 * r > u THEN q + 1
        ELSE IF q % 2 = 0 THEN q ELSE q + 1

\* std::remainder(x, u): x - n*u with n the integer nearest to x/u.
\* It is exact.  remainder(x, 0) is NaN; the model flags it in remByZero and
\* hands back 0 here.
Remainder(x, u) ==
    IF u = 0 THEN 0 ELSE x - NearestQuotient(x, Abs(u)) * Abs(u)

IsIntegral(t) == t = "int"

Scale(t) == IF IsIntegral(t) THEN 1 ELSE Pow2(FracBits)

\* T(1), std::numeric_limits<T>::epsilon() as numerators over Scale(t)
One(t) == Scale(t)

Epsilon(t) == IF IsIntegral(t) THEN 0 ELSE 1

\* a*b and a/b of type t, as numerators (a "flt" result is rounded to the grid)
RoundDiv(n, d) == NearestQuotient(Sign(d) * n, Abs(d))

MulT(t, a, b) == IF IsIntegral(t) THEN a * b ELSE RoundDiv(a * b, Scale(t))

DivT(t, a, b) == IF IsIntegral(t) THEN CDiv(a, b) ELSE RoundDiv(a * Scale(t), b)

----------------------------------------------------------------------------
(* Numbers of the angle<> part: [m, e] stands for m * 2^e.                 *)

\* the number of bits of n > 0
RECURSIVE BitLen(_)
BitLen(n) == IF n <= 0 THEN 0 ELSE 1 + BitLen(n \div 2)

\* m * 2^e with an odd (or zero) significand
RECURSIVE Canon(_, _)
Canon(m, e) ==
    IF m = 0 THEN [m |-> 0, e |-> 0]
    ELSE IF m % 2 = 0 THEN Canon(m \div 2, e + 1)
    ELSE [m |-> m, e |-> e]

\* the "flt" value nearest to m * 2^e: Precision significant bits, ties to even
RoundToPrecision(m, e) ==
    LET n == Abs(m)
        s == BitLen(n) - Precision
    IN  IF s <= 0 THEN Canon(m, e)
        ELSE LET q == n \div Pow2(s)
                 r == n % Pow2(s)
                 h == Pow2(s - 1)
                 up == r > h \/ (r = h /\ q % 2 = 1)
             IN  Canon(Sign(m) * (IF up THEN q + 1 ELSE q), e + s)

\* an "int" value
IntNum(n) == [m |-> n, e |-> 0]

\* two numbers over their smaller exponent: <<significand, significand, exponent>>
Aligned(a, b) ==
    LET e0 == IF a.e < b.e THEN a.e ELSE b.e
    IN  <<a.m * Pow2(a.e - e0), b.m * Pow2(b.e - e0), e0>>

\* built-in a < b, a == b, a <= b on numbers of one type
Less(a, b) == Aligned(a, b)[1] < Aligned(a, b)[2]

Equal(a, b) == Aligned(a, b)[1] = Aligned(a, b)[2]

LessEq(a, b) == Aligned(a, b)[1] <= Aligned(a, b)[2]

\* floating to integral conversion: the fraction is discarded
Trunc(x) ==
    IF x.e >= 0 THEN x.m * Pow2(x.e)
    ELSE Sign(x.m) * (Abs(x.m) \div Pow2(-x.e))

\* T(x): the number x of type from converted to type to
Cast(to, from, x) ==
    IF to = from THEN x
    ELSE IF IsIntegral(to) THEN IntNum(Trunc(x))
    ELSE RoundToPrecision(x.m, x.e)

\* std::common_type of two number types
CommonType(k1, k2) == IF IsIntegral(k1) /\ IsIntegral(k2) THEN "int" ELSE "flt"

\* built-in a + b of type k
Add(k, a, b) ==
    IF IsIntegral(k) THEN IntNum(a.m + b.m)
    ELSE LET al == Aligned(a, b) IN RoundToPrecision(al[1] + al[2], al[3])

\* built-in -x
Neg(x) == [m |-> -x.m, e |-> x.e]

\* built-in a * b of type k
Mul(k, a, b) ==
    IF IsIntegral(k) THEN IntNum(a.m * b.m)
    ELSE RoundToPrecision(a.m * b.m, a.e + b.e)

\* built-in a / b of type k (b is not zero): the integer quotient is
\* truncated, the floating quotient is rounded (the lowest bit of the
\* significand handed to RoundToPrecision is set when the quotient is inexact)
Quot(k, a, b) ==
    IF IsIntegral(k) THEN IntNum(CDiv(a.m, b.m))
    ELSE LET sh == Precision + 2 + BitLen(Abs(b.m))
             n == Abs(a.m) * Pow2(sh)
             q == n \div Abs(b.m)
             sticky == IF n % Abs(b.m) = 0 THEN 0 ELSE 1
         IN  RoundToPrecision(Sign(a.m) * Sign(b.m) * (2 * q + sticky),
                              a.e - b.e - sh - 1)

\* std::fmod(a, b) (b is not zero): a - n*b with n = a/b truncated; the
\* result is exact and has the sign of a (an integral a and b are handed
\* over as double, which holds them exactly)
Fmod(k, a, b) ==
    LET al == Aligned(a, b)
    IN  IF IsIntegral(k) THEN IntNum(CMod(a.m, b.m))
        ELSE Canon(CMod(al[1], al[2]), al[3])

\* pi<T>
Pi(k) == IF IsIntegral(k) THEN IntNum(3) ELSE RoundToPrecision(205887, -16)

----------------------------------------------------------------------------
(* angle<Turn>                                                 (angle.h)   *)
(* Turn policies: degrees_turn<T> ("deg"), radians_turn<T> ("rad") and     *)
(* gons_turn<T> ("gon"), each over T = "int" or "flt".                     *)

AngleUnits == {"deg", "rad", "gon"}

NumberKinds == {"int", "flt"}

\* Turn::value
Turn(unit, k) ==
    CASE unit = "deg" -> Cast(k, "int", IntNum(360))
      [] unit = "gon" -> Cast(k, "int", IntNum(400))
      [] unit = "rad" -> Mul(k, Cast(k, "int", IntNum(2)), Pi(k))

Zero == IntNum(0)

MkAngle(unit, k, v) == [unit |-> unit, kind |-> k, v |-> v]

\* std::is_same<turn_type, OutTurn>
SameTurn(a, unit, k) == a.unit = unit /\ a.kind = k

\* the return type of as<OutTurn>()
AsType(a, unit, k) ==
    IF SameTurn(a, unit, k) THEN a.kind ELSE CommonType(k, a.kind)

\* as<OutTurn>() multiplying before it divides: (Out * v) / turn
AsMultiplyFirst(a, unit, k) ==
    IF SameTurn(a, unit, k) THEN a.v
    ELSE LET ct == CommonType(k, a.kind)
         IN  Quot(ct, Mul(ct, Cast(ct, k, Turn(unit, k)), Cast(ct, a.kind, a.v)),
                      Cast(ct, a.kind, Turn(a.unit, a.kind)))

\* a.as<OutTurn>() with OutTurn = unit over k
As(a, unit, k) ==
    IF SameTurn(a, unit, k) THEN a.v
    ELSE LET ct == CommonType(k, a.kind)
         IN  Mul(ct, Quot(ct, Cast(ct, k, Turn(unit, k)),
                              Cast(ct, a.kind, Turn(a.unit, a.kind))),
                     Cast(ct, a.kind, a.v))

\* radians_cast<T>(a), degrees_cast<T>(a): as<>() returned as a T
RadiansCast(k, a) == Cast(k, AsType(a, "rad", k), As(a, "rad", k))

DegreesCast(k, a) == Cast(k, AsType(a, "deg", k), As(a, "deg", k))

\* normalize() taking the remainder of every value, in range or not
NormalizedModuloAlways(a) ==
    LET t == Turn(a.unit, a.kind)
        f == Fmod(a.kind, a.v, t)
    IN  IF Less(f, Zero) THEN Add(a.kind, f, t) ELSE f

\* normalize() without the v_ += turn() of a negative remainder
NormalizedNoWrap(a) ==
    LET t == Turn(a.unit, a.kind)
    IN  IF Less(a.v, Zero) \/ Less(t, a.v) THEN Fmod(a.kind, a.v, t) ELSE a.v

\* the value normalize() stores
Normalized(a) ==
    LET t == Turn(a.unit, a.kind)
        f == Fmod(a.kind, a.v, t)
    IN  IF Less(a.v, Zero) \/ Less(t, a.v)
        THEN IF Less(f, Zero) THEN Add(a.kind, f, t) ELSE f
        ELSE a.v

\* the raw values handed to the angle constructor
AngleInts == {-370, -10, 0, 6, 10, 90, 100, 350, 360, 370, 400, 720}

AngleValues(k) ==
    IF IsIntegral(k) THEN {IntNum(n) : n \in AngleInts}
    ELSE {RoundToPrecision(n, 0) : n \in AngleInts}
         \cup {RoundToPrecision(n, -Precision) : n \in AngleInts}

\* the right-hand operands of the comparisons
AngleOperands ==
    {MkAngle(u, k, Cast(k, "int", IntNum(n))) :
        u \in AngleUnits, k \in NumberKinds, n \in {100}}

NoAngle == MkAngle("none", "none", Zero)

NoCall ==
    [op |-> "none", arg |-> NoAngle, unit |-> "none", kind |-> "none",
     pre |-> Zero, num |-> Zero, num2 |-> Zero, flag |-> "none"]

AngleIdle == ang = NoAngle /\ acall = NoCall

\* angle(const angle<T>& a): an angle of another turn policy constructed
\* from ang (acall.arg); a.as<turn_type>() is stored as a numeric_type
ConvertConstruct ==
    \E u \in AngleUnits, k \in NumberKinds :
        /\ ~SameTurn(ang, u, k)
        /\ acall' = [NoCall EXCEPT !.op = "convert",
                        !.arg = MkAngle(u, k, Cast(k, AsType(ang, u, k), As(ang, u, k)))]
        /\ UNCHANGED ang

\* operator=(const angle<T>& a): v_ = a.as<turn_type>()
ConvertAssign ==
    \E b \in AngleOperands :
        /\ ~SameTurn(b, ang.unit, ang.kind)
        /\ ang' = [ang EXCEPT !.v = Cast(ang.kind, AsType(b, ang.unit, ang.kind),
                                                  As(b, ang.unit, ang.kind))]
        /\ acall' = [NoCall EXCEPT !.op = "assign", !.arg = b]

\* normalize()
Normalize ==
    /\ ang' = [ang EXCEPT !.v = Normalized(ang)]
    /\ acall' = [NoCall EXCEPT !.op = "normalize", !.pre = ang.v]

\* as<OutTurn>()
CallAs ==
    \E u \in AngleUnits, k \in NumberKinds :
        /\ acall' = [NoCall EXCEPT !.op = "as", !.unit = u, !.kind = k,
                                   !.num = As(ang, u, k)]
        /\ UNCHANGED ang

CompareOps == {"==", "!=", "<", ">", "<=", ">="}

\* the built-in comparison x op y
BuiltinCompare(op, x, y) ==
    CASE op = "==" -> Equal(x, y)
      [] op = "!=" -> ~Equal(x, y)
      [] op = "<"  -> Less(x, y)
      [] op = ">"  -> Less(y, x)
      [] op = "<=" -> LessEq(x, y)
      [] op = ">=" -> LessEq(y, x)

\* a op b converting the left operand: a.as<b's turn>() op b.v_
ComparedLeftConverted(op, a, b) ==
    LET ct == CommonType(a.kind, b.kind)
    IN  BuiltinCompare(op, Cast(ct, AsType(a, b.unit, b.kind), As(a, b.unit, b.kind)),
                           Cast(ct, b.kind, b.v))

\* a op b: v_ op other.as<turn_type>(), both sides brought to their common type
Compared(op, a, b) ==
    LET ct == CommonType(a.kind, b.kind)
    IN  BuiltinCompare(op, Cast(ct, a.kind, a.v),
                           Cast(ct, AsType(b, a.unit, a.kind), As(b, a.unit, a.kind)))

\* operator ==, !=, <, >, <=, >= (const angle<T>& other)
Compare ==
    \E op \in CompareOps, b \in AngleOperands :
        /\ acall' = [NoCall EXCEPT !.op = op, !.arg = b,
                        !.flag = IF Compared(op, ang, b) THEN "true" ELSE "false"]
        /\ UNCHANGED ang

\* degrees_cast<T>(a), and that angle taken to radians<T> and back:
\* degrees_cast<T>(radians<T>{radians_cast<T>(degrees<T>{degrees_cast<T>(a)})})
DegreesRadiansDegrees ==
    \E k \in NumberKinds :
        LET d == DegreesCast(k, ang)
            r == RadiansCast(k, MkAngle("deg", k, d))
            back == DegreesCast(k, MkAngle("rad", k, r))
        IN  /\ acall' = [NoCall EXCEPT !.op = "roundtrip", !.kind = k,
                                       !.num = d, !.num2 = back]
            /\ UNCHANGED ang

\* the divisors of operator / (const angle<U1>&, const angle<U2>&)
AngleDivisors ==
    {MkAngle(u, k, Cast(k, "int", IntNum(n))) :
        u \in AngleUnits, k \in NumberKinds, n \in {45}}

\* operator / (a, b): radians_cast<T>(a) / radians_cast<T>(b) with T the
\* common type of the two number types; a zero divisor leaves the division
\* without a defined quotient (acall.flag = "divzero")
DivideAngles ==
    \E b \in AngleDivisors :
        LET ct == CommonType(ang.kind, b.kind)
            n == RadiansCast(ct, ang)
            d == RadiansCast(ct, b)
        IN  /\ acall' = [NoCall EXCEPT !.op = "/", !.arg = b, !.kind = ct,
                            !.num = n, !.num2 = d,
                            !.pre = IF d.m = 0 THEN Zero ELSE Quot(ct, n, d),
                            !.flag = IF d.m = 0 THEN "divzero" ELSE "none"]
            /\ UNCHANGED ang

\* turn_interval, half_turn_interval, quarter_turn_interval,
\* centered_turn_interval and inclination_interval
Intervals == {"turn", "half", "quarter", "centered", "inclination"}

\* the literal n as a numeric_type k
Lit(k, n) == Cast(k, "int", IntNum(n))

\* min() of a centered interval taken as value_type(0)
IntervalMinZero(d, unit, k) == Zero

\* min() of the interval d over Angle = angle of unit and k
IntervalMin(d, unit, k) ==
    CASE d \in {"turn", "half", "quarter"} -> Zero
      [] d = "centered" -> Quot(k, Neg(Turn(unit, k)), Lit(k, 2))
      [] d = "inclination" -> Quot(k, Neg(Turn(unit, k)), Lit(k, 4))

\* max() of the interval d over Angle = angle of unit and k
IntervalMax(d, unit, k) ==
    CASE d = "turn" -> Turn(unit, k)
      [] d \in {"half", "centered"} -> Quot(k, Turn(unit, k), Lit(k, 2))
      [] d \in {"quarter", "inclination"} -> Quot(k, Turn(unit, k), Lit(k, 4))

\* min() and max() of an interval over the type of ang
CallInterval ==
    \E d \in Intervals :
        /\ acall' = [NoCall EXCEPT !.op = "interval", !.flag = d,
                        !.num = IntervalMin(d, ang.unit, ang.kind),
                        !.num2 = IntervalMax(d, ang.unit, ang.kind)]
        /\ UNCHANGED ang

\* mod_turn(angle<T> a): angle<T>{a.normalize()}
ModTurn(a) == MkAngle(a.unit, a.kind, Normalized(a))

\* turn_remainder(angle<T> a): r = angle<T>{a.turn() - angle_cast<T>(a)};
\* r.normalize(); return r
TurnRemainder(a) ==
    LET r == MkAngle(a.unit, a.kind,
                     Add(a.kind, Turn(a.unit, a.kind), Neg(As(a, a.unit, a.kind))))
    IN  MkAngle(a.unit, a.kind, Normalized(r))

\* mod_turn(ang): the parameter is a copy of ang
CallModTurn ==
    /\ acall' = [NoCall EXCEPT !.op = "mod_turn", !.arg = ModTurn(ang)]
    /\ UNCHANGED ang

\* turn_remainder(ang): the parameter is a copy of ang
CallTurnRemainder ==
    /\ acall' = [NoCall EXCEPT !.op = "turn_remainder", !.arg = TurnRemainder(ang)]
    /\ UNCHANGED ang

\* the literal suffixes of namespace angle_literals
Suffixes ==
    {"_deg", "_arcmin", "_arcsec", "_rad", "_pi_rad", "_gon", "_goncs", "_gonccs"}

\* the turn policy of the angle operator"" sfx returns; form is "flt" for
\* the (long double) overload and "int" for the (unsigned long long int) one
LiteralUnit(sfx, form) ==
    CASE sfx = "_deg" -> "deg"
      [] sfx = "_arcmin" -> "arcmin"
      [] sfx = "_arcsec" -> "arcsec"
      [] sfx \in {"_rad", "_pi_rad"} -> "rad"
      [] sfx \in {"_gon", "_goncs"} -> "gon"
      [] sfx = "_gonccs" -> IF form = "flt" THEN "gon_cs" ELSE "gon_ccs"

\* the raw value of that angle: real_t(x), for _pi_rad real_t(x) * pi<real_t>
LiteralRaw(sfx, form, x) ==
    IF sfx = "_pi_rad" THEN Mul("flt", Cast("flt", form, x), Pi("flt"))
    ELSE Cast("flt", form, x)

\* a literal: 2_sfx, or 2.5_sfx
CallLiteral ==
    \E sfx \in Suffixes, form \in NumberKinds :
        LET x == IF form = "int" THEN IntNum(2) ELSE RoundToPrecision(5, -1)
        IN  /\ acall' = [NoCall EXCEPT !.op = "literal", !.flag = sfx,
                            !.kind = form, !.pre = x,
                            !.unit = LiteralUnit(sfx, form),
                            !.num = LiteralRaw(sfx, form, x)]
            /\ UNCHANGED ang

----------------------------------------------------------------------------
(* Arithmetic of angle<Turn>                                   (angle.h)   *)
(* The operand angles have the turn policy of ang; the factors have its    *)
(* numeric_type.  nmut counts the assigning operations applied to ang.     *)

\* the raw values handed to the constructor of the angles of this part
ArithValues(k) ==
    IF IsIntegral(k) THEN {IntNum(n) : n \in {-370, 350, 720}}
    ELSE {RoundToPrecision(n, 0) : n \in {-370, 350, 720}}
         \cup {RoundToPrecision(45, -1)}

\* the angle operands of + and -: of the turn policy of a
ArithOperands(a) == {MkAngle(a.unit, a.kind, Cast(a.kind, "int", IntNum(100)))}

\* the factors of * and /: of the numeric_type of a
ArithFactors(a) == {Cast(a.kind, "int", IntNum(3))}

\* operator + returning a normalized angle
OperatorPlusAngleNormalized(a, b) ==
    MkAngle(a.unit, a.kind, Normalized(MkAngle(a.unit, a.kind, Add(a.kind, a.v, b.v))))

\* operator + (const angle& a) const: angle{v_ + a.v_}
OperatorPlusAngle(a, b) == MkAngle(a.unit, a.kind, Add(a.kind, a.v, b.v))

\* operator - (const angle& a) const: angle{v_ - a.v_}
OperatorMinusAngle(a, b) == MkAngle(a.unit, a.kind, Add(a.kind, a.v, Neg(b.v)))

\* operator * (const numeric_type& factor) const: angle{v_ * factor}
OperatorTimesAngle(a, f) == MkAngle(a.unit, a.kind, Mul(a.kind, a.v, f))

\* operator * (const numeric_type& factor, const angle& a): angle{factor * a.v_}
OperatorPreTimesAngle(f, a) == MkAngle(a.unit, a.kind, Mul(a.kind, f, a.v))

\* operator / (const numeric_type& factor) const: angle{v_ / factor}
OperatorOverAngle(a, f) == MkAngle(a.unit, a.kind, Quot(a.kind, a.v, f))

\* a binary operator called on ang: the angle it returns is acall.arg
Returned(op, b, f, r) ==
    /\ acall' = [NoCall EXCEPT !.op = op, !.arg = r, !.pre = b, !.num = f]
    /\ UNCHANGED <<ang, nmut>>

PlusAngle ==
    \E b \in ArithOperands(ang) : Returned("+", b.v, Zero, OperatorPlusAngle(ang, b))

MinusAngle ==
    \E b \in ArithOperands(ang) : Returned("-", b.v, Zero, OperatorMinusAngle(ang, b))

TimesFactor ==
    \E f \in ArithFactors(ang) : Returned("*", Zero, f, OperatorTimesAngle(ang, f))

FactorTimes ==
    \E f \in ArithFactors(ang) : Returned("f*", Zero, f, OperatorPreTimesAngle(f, ang))

OverFactor ==
    \E f \in ArithFactors(ang) : Returned("/", Zero, f, OperatorOverAngle(ang, f))

\* an assigning operator called on ang: v_ becomes v; acall.arg is the
\* angle before the call
Assigned(op, b, f, v) ==
    /\ nmut < MaxOps
    /\ ang' = [ang EXCEPT !.v = v]
    /\ nmut' = nmut + 1
    /\ acall' = [NoCall EXCEPT !.op = op, !.arg = ang, !.pre = b, !.num = f]

\* operator += (const angle& a): v_ += a.v_
AddAssignAngle ==
    \E b \in ArithOperands(ang) : Assigned("+=", b.v, Zero, Add(ang.kind, ang.v, b.v))

\* operator -= (const angle& a): v_ -= a.v_
SubAssignAngle ==
    \E b \in ArithOperands(ang) : Assigned("-=", b.v, Zero, Add(ang.kind, ang.v, Neg(b.v)))

\* operator *= (const numeric_type& factor): v_ *= factor
MulAssignFactor ==
    \E f \in ArithFactors(ang) : Assigned("*=", Zero, f, Mul(ang.kind, ang.v, f))

\* operator /= (const numeric_type& factor): v_ /= factor
DivAssignFactor ==
    \E f \in ArithFactors(ang) : Assigned("/=", Zero, f, Quot(ang.kind, ang.v, f))

----------------------------------------------------------------------------
(* approx_equal(a, b, tolerance)                            (equality.h)   *)
(* The three operands have one type: "int" (signed, values far from its    *)
(* limits) or "unsigned" (UWidth bits, arithmetic modulo 2^UWidth).        *)
(* approx_equal(a, b)                                                      *)
(* The operands have the types ty and tb out of "int", "dbl" and "flt"     *)
(* (two floating types).  Their values are numerators over Scale("flt"),   *)
(* small enough for b - tolerance and b + tolerance to be exact.           *)

AeIdle ==
    [fn |-> "none", ty |-> "none", tb |-> "none", a |-> 0, b |-> 0,
     tol |-> 0, ret |-> "none"]

\* the values of an operand type
TypeValues(ty) ==
    IF ty = "unsigned" THEN 0..(Pow2(UWidth) - 1) ELSE (-MaxA)..MaxA

\* b + tolerance and b - tolerance in the operand type
AddIn(ty, p, q) == IF ty = "unsigned" THEN (p + q) % Pow2(UWidth) ELSE p + q

SubIn(ty, p, q) == IF ty = "unsigned" THEN (p - q) % Pow2(UWidth) ELSE p - q

\* ApproxEqual with the upper bound exclusive
ApproxEqualStrictUpper(ty, a, b, tol) ==
    (a >= SubIn(ty, b, tol)) /\ (a < AddIn(ty, b, tol))

\* approx_equal(const T1& a, const T2& b, const T3& tolerance)
ApproxEqual(ty, a, b, tol) ==
    (a >= SubIn(ty, b, tol)) /\ (a <= AddIn(ty, b, tol))

\* a call of approx_equal(a, b, tolerance)
CallApproxEqual ==
    /\ ae.fn = "explicit"
    /\ ae.ret = "none"
    /\ ae' = [ae EXCEPT !.ret =
                 IF ApproxEqual(ae.ty, ae.a, ae.b, ae.tol) THEN "true" ELSE "false"]

\* the operand types of approx_equal(a, b)
DefaultTypes == {"int", "dbl", "flt"}

\* the values of an operand of approx_equal(a, b), as numerators
GridValues(ty) ==
    IF IsIntegral(ty) THEN {n * Scale(ty) * Scale("flt") : n \in (-MaxA)..MaxA}
                           \cap ((-MaxA)..MaxA)
    ELSE (-MaxA)..MaxA

\* tolerance<T>, as a numerator
DefaultTolerance(ty) ==
    CASE ty = "int" -> 0
      [] ty = "dbl" -> 1
      [] ty = "flt" -> 2

\* ApproxEqualDefault taking the tolerance of the other operand type
ApproxEqualDefaultSmaller(t1, t2, a, b) ==
    IF DefaultTolerance(t1) > DefaultTolerance(t2)
    THEN (a >= b - DefaultTolerance(t2)) /\ (a <= b + DefaultTolerance(t2))
    ELSE (b >= a - DefaultTolerance(t1)) /\ (b <= a + DefaultTolerance(t1))

\* approx_equal(const T1& a, const T2& b)
ApproxEqualDefault(t1, t2, a, b) ==
    IF DefaultTolerance(t1) < DefaultTolerance(t2)
    THEN (a >= b - DefaultTolerance(t2)) /\ (a <= b + DefaultTolerance(t2))
    ELSE (b >= a - DefaultTolerance(t1)) /\ (b <= a + DefaultTolerance(t1))

\* a call of approx_equal(a, b)
CallApproxEqualDefault ==
    /\ ae.fn = "default"
    /\ ae.ret = "none"
    /\ ae' = [ae EXCEPT !.ret =
                 IF ApproxEqualDefault(ae.ty, ae.tb, ae.a, ae.b)
                 THEN "true" ELSE "false"]


----------------------------------------------------------------------------
(* round_to_nearest<T>                                                     *)

\* RoundToNearestCtor testing unit_ < T(0) instead of unit_ <= T(0)
RoundToNearestCtorStrict(t, unit) ==
    IF unit < 0
    THEN (IF IsIntegral(t) THEN One(t) ELSE Epsilon(t))
    ELSE unit

\* round_to_nearest(T unit = T(0)): the unit_ the constructor leaves
RoundToNearestCtor(t, unit) ==
    IF unit <= 0
    THEN (IF IsIntegral(t) THEN One(t) ELSE Epsilon(t))
    ELSE unit

\* round_to_nearest::operator()(x)
RoundToNearest(unit, x) == x - Remainder(x, unit)

\* Corrected storing the raw value, the policy not applied
CorrectedSkipped(o, v) == v

\* rounded::corrected(v) and corrected(v, rm)
Corrected(o, v) == RoundToNearest(o.unit, v)

----------------------------------------------------------------------------
(* rounded<T, round_to_nearest<T>>                                         *)

Values == (-MaxVal)..MaxVal

Units == (-1)..MaxUnit

Args == (-MaxArg)..MaxArg

InT(v) == v \in Values

NoLast == [op |-> "none", raw |-> 0]

NoRes == [op |-> "none", a |-> 0, b |-> 0, val |-> 0]

\* rounded(v, rounding_method(u)) as a value: the operand objects
Make(t, v, u) ==
    [v |-> RoundToNearest(RoundToNearestCtor(t, u), v),
     unit |-> RoundToNearestCtor(t, u), cu |-> u]

Operands == {Make(T, v, u) : v \in Args, u \in {0, 2}}

\* v_ = corrected(raw) under the policy of rnd
Store(op, raw) ==
    /\ InT(raw)
    /\ InT(Corrected(rnd, raw))
    /\ rnd' = [rnd EXCEPT !.v = Corrected(rnd, raw)]
    /\ last' = [op |-> op, raw |-> raw]
    /\ remByZero' = (remByZero \/ rnd.unit = 0)
    /\ res' = NoRes
    /\ UNCHANGED T

\* rounded(const value_type& v, rounding_method rm): rounding_method(rm),
\* v_{corrected(v, rm)}
Construct ==
    \E v \in Values, u \in Units :
        /\ InT(RoundToNearest(RoundToNearestCtor(T, u), v))
        /\ rnd' = Make(T, v, u)
        /\ last' = [op |-> "ctor", raw |-> v]
        /\ remByZero' = (remByZero \/ RoundToNearestCtor(T, u) = 0)
        /\ res' = NoRes
        /\ UNCHANGED T

\* rounded(const value_type& v): rm = rounding_method(), unit = T(0)
ConstructDefault ==
    \E v \in Values :
        /\ InT(RoundToNearest(RoundToNearestCtor(T, 0), v))
        /\ rnd' = Make(T, v, 0)
        /\ last' = [op |-> "ctor", raw |-> v]
        /\ remByZero' = (remByZero \/ RoundToNearestCtor(T, 0) = 0)
        /\ res' = NoRes
        /\ UNCHANGED T

\* explicit rounded(rounding_method rp): v_()
ConstructPolicy ==
    \E u \in Units :
        /\ rnd' = [v |-> 0, unit |-> RoundToNearestCtor(T, u), cu |-> u]
        /\ last' = [op |-> "ctor_policy", raw |-> 0]
        /\ res' = NoRes
        /\ UNCHANGED <<T, remByZero>>

\* operator = (const rounded&), operator = (rounded&& src): the policy and
\* the value of the source
CopyAssign ==
    \E o \in Operands :
        /\ rnd' = o
        /\ last' = [op |-> "copy", raw |-> o.v]
        /\ res' = NoRes
        /\ UNCHANGED <<T, remByZero>>

\* operator = (const value_type& v)
AssignValue == \E v \in Values : Store("assign", v)

\* operator += (const value_type& v)
AddAssign == \E v \in Args : Store("+=", rnd.v + v)

\* operator -= (const value_type& v)
SubAssign == \E v \in Args : Store("-=", rnd.v - v)

\* operator *= (const value_type& v)
MulAssign == \E v \in Args : Store("*=", MulT(T, rnd.v, v))

\* operator /= (const value_type& v): corrected(v_ /= v)
DivAssign == \E v \in Args \ {0} : Store("/=", DivT(T, rnd.v, v))

\* operator ++ ()
PreInc == Store("++", rnd.v + One(T))

\* operator -- ()
PreDec == Store("--", rnd.v - One(T))

\* operator ++ (int): ++*this, returns the old object
PostInc ==
    /\ InT(rnd.v + One(T))
    /\ InT(Corrected(rnd, rnd.v + One(T)))
    /\ rnd' = [rnd EXCEPT !.v = Corrected(rnd, rnd.v + One(T))]
    /\ last' = [op |-> "++(int)", raw |-> rnd.v + One(T)]
    /\ remByZero' = (remByZero \/ rnd.unit = 0)
    /\ res' = [op |-> "++(int)", a |-> rnd.v, b |-> One(T), val |-> rnd.v]
    /\ UNCHANGED T

\* operator -- (int): --*this, returns the old object
PostDec ==
    /\ InT(rnd.v - One(T))
    /\ InT(Corrected(rnd, rnd.v - One(T)))
    /\ rnd' = [rnd EXCEPT !.v = Corrected(rnd, rnd.v - One(T))]
    /\ last' = [op |-> "--(int)", raw |-> rnd.v - One(T)]
    /\ remByZero' = (remByZero \/ rnd.unit = 0)
    /\ res' = [op |-> "--(int)", a |-> rnd.v, b |-> One(T), val |-> rnd.v]
    /\ UNCHANGED T

\* operator += (const rounded& o)
AddAssignRounded == \E o \in Operands : Store("+=r", rnd.v + o.v)

\* operator -= (const rounded& o)
SubAssignRounded == \E o \in Operands : Store("-=r", rnd.v - o.v)

\* operator *= (const rounded& o)
MulAssignRounded == \E o \in Operands : Store("*=r", MulT(T, rnd.v, o.v))

\* operator /= (const rounded& o)
DivAssignRounded ==
    \E o \in Operands : o.v # 0 /\ Store("/=r", DivT(T, rnd.v, o.v))

\* operator %= (const rounded& o): integral T only
ModAssignRounded ==
    \E o \in Operands :
        IsIntegral(T) /\ o.v # 0 /\ Store("%=r", CMod(rnd.v, o.v))

----------------------------------------------------------------------------
(* Binary operators on rounded<> values: they return plain numbers         *)

\* OperatorPlus re-wrapping its result in the policy of the rounded operand
OperatorPlusRewrapped(a, b) == RoundToNearest(rnd.unit, a + b)

\* operator + : x.value() + y.value(), x.value() + y, y + x.value()
OperatorPlus(a, b) == a + b

\* operator - : x.value() - y.value(), x.value() - y, y - x.value()
OperatorMinus(a, b) == a - b

\* operator * : x.value() * y.value(), x.value() * y, y * x.value()
OperatorTimes(a, b) == MulT(T, a, b)

\* operator / : x.value() / y.value(), x.value() / y, y / x.value()
OperatorDiv(a, b) == DivT(T, a, b)

\* operator % : x.value() % y.value(), x.value() % y, y % x.value()
OperatorMod(a, b) == CMod(a, b)

Returns(op, a, b, val) ==
    /\ res' = [op |-> op, a |-> a, b |-> b, val |-> val]
    /\ last' = NoLast
    /\ UNCHANGED <<T, rnd, remByZero>>

\* operator - (const rounded<T,R>& x): rounded<T,R>{-x.value()}, the policy
\* of the new object is rounding_method()
OperatorNegate(o) == Make(T, -o.v, 0)

\* abs(const rounded<T,R>& x): rounded<T,R>(abs(x.value()))
AbsOf(o) == Make(T, Abs(o.v), 0)

\* -x and abs(x) called on rnd: res.val is the stored value and res.b the
\* unit of the object returned
Negate ==
    Returns("neg", rnd.v, OperatorNegate(rnd).unit, OperatorNegate(rnd).v)

AbsRounded ==
    Returns("abs", rnd.v, AbsOf(rnd).unit, AbsOf(rnd).v)

Plus ==
    \/ \E o \in Operands : Returns("+", rnd.v, o.v, OperatorPlus(rnd.v, o.v))
    \/ \E n \in Args : Returns("+", rnd.v, n, OperatorPlus(rnd.v, n))
    \/ \E n \in Args : Returns("+", n, rnd.v, OperatorPlus(n, rnd.v))

Minus ==
    \/ \E o \in Operands : Returns("-", rnd.v, o.v, OperatorMinus(rnd.v, o.v))
    \/ \E n \in Args : Returns("-", rnd.v, n, OperatorMinus(rnd.v, n))
    \/ \E n \in Args : Returns("-", n, rnd.v, OperatorMinus(n, rnd.v))

Times ==
    \/ \E o \in Operands : Returns("*", rnd.v, o.v, OperatorTimes(rnd.v, o.v))
    \/ \E n \in Args : Returns("*", rnd.v, n, OperatorTimes(rnd.v, n))
    \/ \E n \in Args : Returns("*", n, rnd.v, OperatorTimes(n, rnd.v))

Div ==
    \/ \E o \in Operands :
          o.v # 0 /\ Returns("/", rnd.v, o.v, OperatorDiv(rnd.v, o.v))
    \/ \E n \in Args :
          n # 0 /\ Returns("/", rnd.v, n, OperatorDiv(rnd.v, n))
    \/ \E n \in Args :
          rnd.v # 0 /\ Returns("/", n, rnd.v, OperatorDiv(n, rnd.v))

Mod ==
    /\ IsIntegral(T)
    /\ \/ \E o \in Operands :
             o.v # 0 /\ Returns("%", rnd.v, o.v, OperatorMod(rnd.v, o.v))
       \/ \E n \in Args :
             n # 0 /\ Returns("%", rnd.v, n, OperatorMod(rnd.v, n))
       \/ \E n \in Args :
             rnd.v # 0 /\ Returns("%", n, rnd.v, OperatorMod(n, rnd.v))

----------------------------------------------------------------------------
(* approx_equal on two ranges                               (equality.h)   *)
(* rg.x is the first range [begin1, end1); rg.y holds the elements of the  *)
(* container begin2 points into; rg.end2 is the position of the second end *)
(* handed to the overload that takes one.  *(begin2 + i) past the last     *)
(* element of rg.y has no defined behaviour: the read yields any value, or *)
(* the call does not return.                                               *)

RangeElems == 0..MaxElem

RangeSeqs == UNION {[1..n -> RangeElems] : n \in 0..MaxLen}

RgIdle ==
    [fn |-> "none", x |-> <<>>, y |-> <<>>, end2 |-> 0, tol |-> 0,
     i |-> 0, seen |-> <<>>, pc |-> "idle", ret |-> "none"]

RangeIdle == rg = RgIdle

\* the loop of the range overloads ending at the shorter range of a call
\* with two ends
LoopEndShorter(fn, n, end2) == IF fn = "five" /\ end2 < n THEN end2 ELSE n

\* the position at which the loop ends: begin1 != end1 fails there
LoopEnd(fn, n, end2) == n

\* approx_equal(begin1, end1, begin2, tolerance)
CallRange ==
    /\ rg.pc = "idle"
    /\ rg' = [rg EXCEPT !.fn = "four", !.pc = "loop"]

\* approx_equal(begin1, end1, begin2, InputIter, tolerance):
\* return approx_equal(begin1, end1, begin2, tolerance)
CallRangeTwoEnds ==
    /\ rg.pc = "idle"
    /\ rg' = [rg EXCEPT !.fn = "five", !.pc = "loop"]

\* if(abs(*begin1 - *begin2) > tolerance) return false; otherwise
\* ++begin1, ++begin2 (yv is the value *begin2 yielded)
Examine(yv) ==
    IF Abs(rg.x[rg.i + 1] - yv) > rg.tol
    THEN rg' = [rg EXCEPT !.seen = Append(@, yv), !.pc = "done", !.ret = "false"]
    ELSE rg' = [rg EXCEPT !.seen = Append(@, yv), !.i = @ + 1]

\* an iteration whose *begin2 is an element of the second container
LoopStep ==
    /\ rg.pc = "loop"
    /\ rg.i # LoopEnd(rg.fn, Len(rg.x), rg.end2)
    /\ rg.i < Len(rg.y)
    /\ Examine(rg.y[rg.i + 1])

\* an iteration whose *begin2 is past the second container: any value
LoopStepBeyond ==
    /\ rg.pc = "loop"
    /\ rg.i # LoopEnd(rg.fn, Len(rg.x), rg.end2)
    /\ rg.i >= Len(rg.y)
    /\ \E yv \in RangeElems : Examine(yv)

\* an iteration whose *begin2 is past the second container: no return
LoopStepFault ==
    /\ rg.pc = "loop"
    /\ rg.i # LoopEnd(rg.fn, Len(rg.x), rg.end2)
    /\ rg.i >= Len(rg.y)
    /\ rg' = [rg EXCEPT !.pc = "fault"]

\* begin1 == end1: return true
LoopExit ==
    /\ rg.pc = "loop"
    /\ rg.i = LoopEnd(rg.fn, Len(rg.x), rg.end2)
    /\ rg' = [rg EXCEPT !.pc = "done", !.ret = "true"]

----------------------------------------------------------------------------
(* rounded<T, round_to_nearest_int>                          (rounded.h)   *)
(* rni.t is T, rni.v is v_ (for "flt" a numerator over Scale("flt")),      *)
(* rni.raw the value the last operation handed to the policy.              *)

NoRni == [t |-> "none", v |-> 0, op |-> "none", raw |-> 0]

\* a policy that rounds to the nearest even integer
RoundToNearestIntEven(t, x) == x - Remainder(x, 2 * Scale(t))

\* round_to_nearest_int::operator()(x): x for an integral T, nearbyint(x)
\* (to the nearest integer, ties to even) otherwise
RoundToNearestInt(t, x) ==
    IF IsIntegral(t) THEN x ELSE x - Remainder(x, Scale(t))

\* v_ = corrected(raw) under round_to_nearest_int
StoreInt(op, raw) ==
    /\ InT(raw)
    /\ InT(RoundToNearestInt(rni.t, raw))
    /\ rni' = [rni EXCEPT !.v = RoundToNearestInt(rni.t, raw), !.op = op, !.raw = raw]

\* operator = (const value_type& v)
AssignValueInt == \E v \in Values : StoreInt("assign", v)

\* operator += (const value_type& v)
AddAssignInt == \E v \in Args : StoreInt("+=", rni.v + v)

\* operator -= (const value_type& v)
SubAssignInt == \E v \in Args : StoreInt("-=", rni.v - v)

\* operator *= (const value_type& v)
MulAssignInt == \E v \in Args : StoreInt("*=", MulT(rni.t, rni.v, v))

\* operator /= (const value_type& v)
DivAssignInt == \E v \in Args \ {0} : StoreInt("/=", DivT(rni.t, rni.v, v))

\* operator ++ ()
PreIncInt == StoreInt("++", rni.v + One(rni.t))

\* operator -- ()
PreDecInt == StoreInt("--", rni.v - One(rni.t))

----------------------------------------------------------------------------
(* Counting loops over a rounded<T, round_to_nearest<T>>     (rounded.h)   *)
(* for(r = a; r < b; ++r) and for(r = a; r > b; --r): rnd is r, cnt.b is   *)
(* b and cnt.pc the direction of the loop, "done" once its test has failed *)

NoCnt == [b |-> 0, pc |-> "none"]

\* r < b holds: ++r, v_ = corrected(v_ + 1)
CountUp ==
    /\ cnt.pc = "up"
    /\ rnd.v < cnt.b
    /\ rnd' = [rnd EXCEPT !.v = Corrected(rnd, rnd.v + One(T))]
    /\ last' = [op |-> "++", raw |-> rnd.v + One(T)]
    /\ UNCHANGED <<T, res, remByZero, cnt>>

\* r > b holds: --r, v_ = corrected(v_ - 1)
CountDown ==
    /\ cnt.pc = "down"
    /\ rnd.v > cnt.b
    /\ rnd' = [rnd EXCEPT !.v = Corrected(rnd, rnd.v - One(T))]
    /\ last' = [op |-> "--", raw |-> rnd.v - One(T)]
    /\ UNCHANGED <<T, res, remByZero, cnt>>

\* the test of the loop fails: the loop ends
CountEnd ==
    /\ \/ cnt.pc = "up" /\ ~(rnd.v < cnt.b)
       \/ cnt.pc = "down" /\ ~(rnd.v > cnt.b)
    /\ cnt' = [cnt EXCEPT !.pc = "done"]
    /\ UNCHANGED varsR

----------------------------------------------------------------------------
(* dual_quaternion<T> = quaternion<dual<T>>            (dual_quaternion.h) *)
(* A quaternion is a record of its four components real, imag_i, imag_j    *)
(* and imag_k; a dual<T> is a record of real and imag.  The components are *)
(* values of a floating T that need no rounding, so -x is exact.  dq.r and *)
(* dq.d are the quaternions handed to make_dual, dq.made what it returned, *)
(* dq.q the dual quaternion after the conjugations of dq.hist, dq.out what *)
(* the last call of real() or imag() on dq.q returned; dq.pc is "none"     *)
(* until make_dual has been called.                                        *)

DualElems == {-MaxComp, 0, MaxComp}

Quaternion(a, b, c, d) == [real |-> a, imag_i |-> b, imag_j |-> c, imag_k |-> d]

Dual(re, im) == [real |-> re, imag |-> im]

Quaternions == [real : DualElems, imag_i : DualElems, imag_j : DualElems, imag_k : DualElems]

NoOut == [op |-> "none", val |-> Quaternion(0, 0, 0, 0)]

\* dual_conj with the signs of full_conj
dual_conj_as_full(q) ==
    Quaternion(Dual(q.real.real, -q.real.imag),
               Dual(-q.imag_i.real, q.imag_i.imag),
               Dual(-q.imag_j.real, q.imag_j.imag),
               Dual(-q.imag_k.real, q.imag_k.imag))

dual_conj(q) ==
    Quaternion(Dual(q.real.real, -q.real.imag),
               Dual(q.imag_i.real, -q.imag_i.imag),
               Dual(q.imag_j.real, -q.imag_j.imag),
               Dual(q.imag_k.real, -q.imag_k.imag))

full_conj(q) ==
    Quaternion(Dual(q.real.real, -q.real.imag),
               Dual(-q.imag_i.real, q.imag_i.imag),
               Dual(-q.imag_j.real, q.imag_j.imag),
               Dual(-q.imag_k.real, q.imag_k.imag))

\* real(dq): the real part
real(q) == Quaternion(q.real.real, q.imag_i.real, q.imag_j.real, q.imag_k.real)

\* imag(dq): the dual part
imag(q) == Quaternion(q.real.imag, q.imag_i.imag, q.imag_j.imag, q.imag_k.imag)

\* make_dual(real, imag)
make_dual(r, d) ==
    Quaternion(Dual(r.real, d.real),
               Dual(r.imag_i, d.imag_i),
               Dual(r.imag_j, d.imag_j),
               Dual(r.imag_k, d.imag_k))

NoDq ==
    [r |-> Quaternion(0, 0, 0, 0), d |-> Quaternion(0, 0, 0, 0),
     made |-> make_dual(Quaternion(0, 0, 0, 0), Quaternion(0, 0, 0, 0)),
     q |-> make_dual(Quaternion(0, 0, 0, 0), Quaternion(0, 0, 0, 0)),
     hist |-> <<>>, out |-> NoOut, pc |-> "none"]

\* q = make_dual(r, d)
Made(r, d) ==
    [r |-> r, d |-> d, made |-> make_dual(r, d), q |-> make_dual(r, d),
     hist |-> <<>>, out |-> NoOut, pc |-> "made"]

CallMakeDual ==
    /\ dq.pc = "none"
    /\ \E r \in Quaternions, d \in Quaternions : dq' = Made(r, d)

\* q = dual_conj(q)
CallDualConj ==
    /\ dq.pc = "made"
    /\ Len(dq.hist) < MaxOps
    /\ dq' = [dq EXCEPT !.q = dual_conj(dq.q),
                        !.hist = Append(dq.hist, "dual_conj"),
                        !.out = NoOut]

\* q = full_conj(q)
CallFullConj ==
    /\ dq.pc = "made"
    /\ Len(dq.hist) < MaxOps
    /\ dq' = [dq EXCEPT !.q = full_conj(dq.q),
                        !.hist = Append(dq.hist, "full_conj"),
                        !.out = NoOut]

CallReal ==
    /\ dq.pc = "made"
    /\ dq' = [dq EXCEPT !.out = [op |-> "real", val |-> real(dq.q)]]

CallImag ==
    /\ dq.pc = "made"
    /\ dq' = [dq EXCEPT !.out = [op |-> "imag", val |-> imag(dq.q)]]

----------------------------------------------------------------------------
(* linear_sequence<T> and repeated_sequence<Generator>                     *)
(*                     (sequ_linear.h, sequ_repeated.h; sequence_test.cpp) *)
(* A linear sequence is the record of its current element cur, its step    *)
(* stride and its last element uBound.  sq.I, sq.R and sq.n are the        *)
(* initial sequence, the repeated sequence and the repeat count as handed  *)
(* to the constructor (for a linear sequence sq.I is the sequence itself), *)
(* sq.cur the generator at its current position, sq.repeats the passes of  *)
(* sq.R still to come, sq.size what size() returned before the loop.  The  *)
(* loop for(auto x : g) v.push_back(x) is followed through sq.count =      *)
(* v.size(), sq.front = v.front() and sq.back = v.back(); sq.pc is "done"  *)
(* once the loop has ended.                                                *)

make_linear_sequence(first, step, lastElem) ==
    [cur |-> first, stride |-> step, uBound |-> lastElem]

NoSq ==
    [kind |-> "none", I |-> make_linear_sequence(0, 1, 0),
     R |-> make_linear_sequence(0, 1, 0), n |-> 0,
     cur |-> make_linear_sequence(0, 1, 0), repeats |-> 0, size |-> 0,
     count |-> 0, front |-> 0, back |-> 0, pc |-> "none"]

\* the sequence ends one element early
ExhaustedAtBound(g) ==
    IF g.stride > 0 THEN g.cur >= g.uBound ELSE g.cur <= g.uBound

\* no element is left: cur has passed uBound
Exhausted(g) ==
    IF g.stride > 0 THEN g.cur > g.uBound ELSE g.cur < g.uBound

\* linear_sequence::size()
Size(g) == IF Exhausted(g) THEN 0 ELSE 1 + CDiv(g.uBound - g.cur, g.stride)

\* linear_sequence::operator ++ ()
Advanced(g) == [g EXCEPT !.cur = g.cur + g.stride]

SequenceStrides == (-MaxStride..MaxStride) \ {0}

\* linear sequences whose last element lies in the direction of the step
LinearSequences ==
    {g \in [cur : 0..MaxTerm, stride : SequenceStrides, uBound : 0..MaxTerm] :
        (g.uBound - g.cur) * g.stride >= 0}

RepeatedParts ==
    {make_linear_sequence(a, -1, 1) : a \in 1..MaxPart}
        \cup {make_linear_sequence(1, 1, a) : a \in 1..MaxPart}

\* the loop over linear_sequence<int>{first, step, last} begins
linear_sequence(g) ==
    [kind |-> "linear", I |-> g, R |-> g, n |-> 0, cur |-> g, repeats |-> 0,
     size |-> Size(g), count |-> 0, front |-> 0, back |-> 0, pc |-> "loop"]

\* the loop over repeated_sequence<linear_sequence<int>>{I, R, n} begins
repeated_sequence(i, r, n) ==
    [kind |-> "repeated", I |-> i, R |-> r, n |-> n, cur |-> i, repeats |-> n,
     size |-> 0, count |-> 0, front |-> 0, back |-> 0, pc |-> "loop"]

\* v.push_back(x)
Pushed(s, x) ==
    [s EXCEPT !.count = s.count + 1,
              !.front = IF s.count = 0 THEN x ELSE s.front,
              !.back = x]

\* a new pass starts over with the initial sequence
RepeatedIncrementInitial(s) ==
    LET c == Advanced(s.cur)
    IN  IF Exhausted(c) /\ s.repeats > 0
        THEN [s EXCEPT !.cur = s.I, !.repeats = s.repeats - 1]
        ELSE [s EXCEPT !.cur = c]

\* repeated_sequence::operator ++ (): the current pass moves on; when it is
\* over and a repeat is left, the next pass of the repeated sequence starts
RepeatedIncrement(s) ==
    LET c == Advanced(s.cur)
    IN  IF Exhausted(c) /\ s.repeats > 0
        THEN [s EXCEPT !.cur = s.R, !.repeats = s.repeats - 1]
        ELSE [s EXCEPT !.cur = c]

\* one pass of the loop over a linear sequence: x = *it, push_back, ++it
LinearYield ==
    /\ sq.kind = "linear"
    /\ sq.pc = "loop"
    /\ ~Exhausted(sq.cur)
    /\ sq' = [Pushed(sq, sq.cur.cur) EXCEPT !.cur = Advanced(sq.cur)]

\* it == end: the loop over a linear sequence ends
LinearEnd ==
    /\ sq.kind = "linear"
    /\ sq.pc = "loop"
    /\ Exhausted(sq.cur)
    /\ sq' = [sq EXCEPT !.pc = "done"]

\* one pass of the loop over a repeated sequence
RepeatedYield ==
    /\ sq.kind = "repeated"
    /\ sq.pc = "loop"
    /\ ~Exhausted(sq.cur)
    /\ sq' = RepeatedIncrement(Pushed(sq, sq.cur.cur))

\* the loop over a repeated sequence ends
RepeatedEnd ==
    /\ sq.kind = "repeated"
    /\ sq.pc = "loop"
    /\ Exhausted(sq.cur)
    /\ sq' = [sq EXCEPT !.pc = "done"]

----------------------------------------------------------------------------
(* quantity<IntT>                            (quantity.h; quantity_test.cpp) *)
(* A quantity is a count that is never negative and may be infinite: the   *)
(* record of its underlying integer type t, of inf (it is infinity()) and  *)
(* of its finite value v (0 when inf).  qty.x and qty.y are the operands,  *)
(* qty.op the last operator applied to them, qty.out the quantity an       *)
(* arithmetic operator returned, qty.flag what a comparison returned.      *)

QuantityTypes == {"int", "long long"}

\* quantity<t>{n}
Quantity(t, n) == [t |-> t, inf |-> FALSE, v |-> n]

\* quantity<t>::infinity()
infinity(t) == [t |-> t, inf |-> TRUE, v |-> 0]

isinf(x) == x.inf

Quantities ==
    {Quantity(t, n) : t \in QuantityTypes, n \in 0..MaxQty}
        \cup {infinity(t) : t \in QuantityTypes}

\* the underlying type of the result of a binary operator
QuantityCommonType(x, y) == IF x.t = y.t THEN x.t ELSE "long long"

NoQty ==
    [x |-> Quantity("int", 0), y |-> Quantity("int", 0), op |-> "none",
     out |-> Quantity("int", 0), flag |-> "none"]

\* operator + (quantity, quantity)
OperatorPlusQuantity(x, y) ==
    IF isinf(x) \/ isinf(y) THEN infinity(QuantityCommonType(x, y))
    ELSE Quantity(QuantityCommonType(x, y), x.v + y.v)

\* the difference taken without saturation, infinity absorbing
OperatorMinusQuantityPlain(x, y) ==
    IF isinf(x) \/ isinf(y) THEN infinity(QuantityCommonType(x, y))
    ELSE Quantity(QuantityCommonType(x, y), x.v - y.v)

\* operator - (quantity, quantity)
OperatorMinusQuantity(x, y) ==
    IF isinf(y) THEN Quantity(QuantityCommonType(x, y), 0)
    ELSE IF isinf(x) THEN infinity(QuantityCommonType(x, y))
    ELSE IF y.v >= x.v THEN Quantity(QuantityCommonType(x, y), 0)
    ELSE Quantity(QuantityCommonType(x, y), x.v - y.v)

\* the product with infinity absorbing zero as well
OperatorTimesQuantityAbsorbing(x, y) ==
    IF isinf(x) \/ isinf(y) THEN infinity(QuantityCommonType(x, y))
    ELSE Quantity(QuantityCommonType(x, y), x.v * y.v)

\* operator * (quantity, quantity)
OperatorTimesQuantity(x, y) ==
    IF (~isinf(x) /\ x.v = 0) \/ (~isinf(y) /\ y.v = 0)
    THEN Quantity(QuantityCommonType(x, y), 0)
    ELSE IF isinf(x) \/ isinf(y) THEN infinity(QuantityCommonType(x, y))
    ELSE Quantity(QuantityCommonType(x, y), x.v * y.v)

\* operator == (quantity, quantity)
QuantityEqual(x, y) ==
    IF isinf(x) \/ isinf(y) THEN isinf(x) /\ isinf(y) ELSE x.v = y.v

\* operator < (quantity, quantity)
QuantityLess(x, y) ==
    IF isinf(x) THEN FALSE ELSE IF isinf(y) THEN TRUE ELSE x.v < y.v

QuantityCompareOps == {"==", "!=", "<", "<=", ">", ">="}

QuantityCompared(op, x, y) ==
    CASE op = "==" -> QuantityEqual(x, y)
      [] op = "!=" -> ~QuantityEqual(x, y)
      [] op = "<" -> QuantityLess(x, y)
      [] op = ">" -> QuantityLess(y, x)
      [] op = "<=" -> ~QuantityLess(y, x)
      [] op = ">=" -> ~QuantityLess(x, y)

\* x + y
PlusQuantity ==
    qty' = [qty EXCEPT !.op = "+", !.out = OperatorPlusQuantity(qty.x, qty.y),
                       !.flag = "none"]

\* x - y
MinusQuantity ==
    qty' = [qty EXCEPT !.op = "-", !.out = OperatorMinusQuantity(qty.x, qty.y),
                       !.flag = "none"]

\* x * y
TimesQuantity ==
    qty' = [qty EXCEPT !.op = "*", !.out = OperatorTimesQuantity(qty.x, qty.y),
                       !.flag = "none"]

\* x == y, x != y, x < y, x <= y, x > y, x >= y
CompareQuantity ==
    \E op \in QuantityCompareOps :
        qty' = [qty EXCEPT !.op = op, !.out = NoQty.out,
                           !.flag = IF QuantityCompared(op, qty.x, qty.y)
                                    THEN "true" ELSE "false"]

----------------------------------------------------------------------------
(* An object and its copy                          (angle.h, rounded.h)    *)
(* cp.a is an angle<Turn> (cp.cls = "angle") or a rounded<int,             *)
(* round_to_nearest<int>> (cp.cls = "rounded"); cp.b is the object copy-   *)
(* constructed from it.  cp.tgt is the object the last member function was *)
(* called on, cp.ret what a function taking the angle by value returned,   *)
(* cp.n the number of mutating calls so far.                               *)

NoCp ==
    [cls |-> "none", a |-> NoAngle, b |-> NoAngle, op |-> "none",
     tgt |-> "none", ret |-> NoAngle, n |-> 0]

\* the objects that are copied
CopyObjects(cls) ==
    IF cls = "angle"
    THEN {MkAngle(u, k, Lit(k, n)) : u \in AngleUnits, k \in NumberKinds,
                                     n \in {-370, 350}}
    ELSE {Make("int", v, 2) : v \in Args}

\* two objects sharing one stored value
StoredShared(me, tgt, old, new) == new

\* the object me after a member function called on the object tgt has
\* stored new in its own v_
Stored(me, tgt, old, new) == IF me = tgt THEN new ELSE old

Obj(tgt) == IF tgt = "a" THEN cp.a ELSE cp.b

\* a mutating member function called on tgt
Put(op, tgt, new) ==
    /\ cp.n < MaxOps
    /\ cp' = [cp EXCEPT !.a = Stored("a", tgt, cp.a, new),
                        !.b = Stored("b", tgt, cp.b, new),
                        !.op = op, !.tgt = tgt, !.ret = NoAngle, !.n = @ + 1]

\* angle::normalize()
NormalizeOne ==
    \E tgt \in {"a", "b"} :
        /\ cp.cls = "angle"
        /\ Put("normalize", tgt, [Obj(tgt) EXCEPT !.v = Normalized(Obj(tgt))])

\* angle::operator += (const angle& a)
AddAssignOne ==
    \E tgt \in {"a", "b"} :
        /\ cp.cls = "angle"
        /\ Put("+=", tgt, [Obj(tgt) EXCEPT
                              !.v = Add(Obj(tgt).kind, @, Lit(Obj(tgt).kind, 100))])

\* angle::operator ++ (): ++v_
PreIncOne ==
    \E tgt \in {"a", "b"} :
        /\ cp.cls = "angle"
        /\ Put("++", tgt, [Obj(tgt) EXCEPT
                              !.v = Add(Obj(tgt).kind, @, Lit(Obj(tgt).kind, 1))])

\* rounded::operator += (const value_type& v): v_ = corrected(v_ + v)
RoundedAddAssignOne ==
    \E tgt \in {"a", "b"}, v \in {1, 3} :
        /\ cp.cls = "rounded"
        /\ InT(Obj(tgt).v + v)
        /\ Put("+=", tgt, [Obj(tgt) EXCEPT !.v = Corrected(Obj(tgt), @ + v)])

\* rounded::operator ++ (): v_ = corrected(v_ + 1)
RoundedPreIncOne ==
    \E tgt \in {"a", "b"} :
        /\ cp.cls = "rounded"
        /\ InT(Obj(tgt).v + 1)
        /\ Put("++", tgt, [Obj(tgt) EXCEPT !.v = Corrected(Obj(tgt), @ + 1)])

\* operator = (const angle&), operator = (const rounded&): tgt takes the
\* value of the other object
CopyAssignOne ==
    \E tgt \in {"a", "b"} :
        Put("=", tgt, IF tgt = "a" THEN cp.b ELSE cp.a)

\* mod_turn(angle<T> a), turn_remainder(angle<T> a) called with tgt: the
\* parameter is a copy of the argument
ByValue(op, tgt, r) ==
    /\ cp.cls = "angle"
    /\ cp' = [cp EXCEPT !.op = op, !.tgt = tgt, !.ret = r]

ModTurnByValue == \E tgt \in {"a", "b"} : ByValue("mod_turn", tgt, ModTurn(Obj(tgt)))

TurnRemainderByValue ==
    \E tgt \in {"a", "b"} : ByValue("turn_remainder", tgt, TurnRemainder(Obj(tgt)))

----------------------------------------------------------------------------
(* constant<T>                                              (constant.h)   *)
(* con.v is v_; con.x is the value handed to the constructor, con.ret what *)
(* the last call returned and con.made the stored value of the constant    *)
(* the last call constructed.                                              *)

ConstValues == (-MaxConst)..MaxConst

NoConst == [v |-> 0, x |-> 0, op |-> "none", ret |-> 0, made |-> 0]

ConstantIdle == con = NoConst

\* a constructor that value-initializes v_
ConstructedEmpty(x) == 0

\* explicit constant(V&& value): v_(std::forward<T>(value)), the stored value
Constructed(x) == x

\* value()
ConstValue ==
    /\ con' = [con EXCEPT !.op = "value", !.ret = con.v]

\* operator const value_type& ()
ConstConvert ==
    /\ con' = [con EXCEPT !.op = "convert", !.ret = con.v]

\* constant(const constant&), constant(constant&&): the new object's v_
ConstCopy ==
    /\ con' = [con EXCEPT !.op = "copy", !.made = con.v]

\* make_constant(x): constant<std::decay_t<T>>{std::forward<T>(x)}
MakeConstant ==
    \E x \in ConstValues :
        con' = [con EXCEPT !.op = "make_constant", !.ret = x, !.made = Constructed(x)]

----------------------------------------------------------------------------
(* The specifications: one for each part.  A part that a specification     *)
(* does not use stays idle.                                                *)

RoundedIdle ==
    /\ T = "int"
    /\ rnd = [v |-> 0, unit |-> 1, cu |-> 0]
    /\ last = [op |-> "none", raw |-> 0]
    /\ res = [op |-> "none", a |-> 0, b |-> 0, val |-> 0]
    /\ remByZero = FALSE

ApproxIdle == ae = AeIdle

\* every part but p is idle
IdleExcept(p) ==
    /\ IF p \in {"rounded", "count"} THEN TRUE ELSE RoundedIdle
    /\ IF p = "count" THEN TRUE ELSE cnt = NoCnt
    /\ IF p = "approx" THEN TRUE ELSE ApproxIdle
    /\ IF p \in {"angle", "arith"} THEN TRUE ELSE AngleIdle
    /\ IF p = "arith" THEN TRUE ELSE nmut = 0
    /\ IF p = "range" THEN TRUE ELSE RangeIdle
    /\ IF p = "constant" THEN TRUE ELSE ConstantIdle
    /\ IF p = "nearest_int" THEN TRUE ELSE rni = NoRni
    /\ IF p = "copy" THEN TRUE ELSE cp = NoCp
    /\ IF p = "dual" THEN TRUE ELSE dq = NoDq
    /\ IF p = "sequence" THEN TRUE ELSE sq = NoSq
    /\ IF p = "quantity" THEN TRUE ELSE qty = NoQty

\* every part but p stays as it is
Frame(p) ==
    /\ IF p \in {"rounded", "count"} THEN TRUE ELSE UNCHANGED varsR
    /\ IF p = "count" THEN TRUE ELSE UNCHANGED varsL
    /\ IF p = "approx" THEN TRUE ELSE UNCHANGED varsE
    /\ IF p \in {"angle", "arith"} THEN TRUE ELSE UNCHANGED varsA
    /\ IF p = "arith" THEN TRUE ELSE UNCHANGED varsN
    /\ IF p = "range" THEN TRUE ELSE UNCHANGED varsG
    /\ IF p = "constant" THEN TRUE ELSE UNCHANGED varsK
    /\ IF p = "nearest_int" THEN TRUE ELSE UNCHANGED varsI
    /\ IF p = "copy" THEN TRUE ELSE UNCHANGED varsC
    /\ IF p = "dual" THEN TRUE ELSE UNCHANGED varsD
    /\ IF p = "sequence" THEN TRUE ELSE UNCHANGED varsS
    /\ IF p = "quantity" THEN TRUE ELSE UNCHANGED varsQ

InitE ==
    /\ IdleExcept("approx")
    /\ \/ \E ty \in {"int", "unsigned"} :
            \E a \in TypeValues(ty), b \in TypeValues(ty), tol \in TypeValues(ty) :
               ae = [fn |-> "explicit", ty |-> ty, tb |-> ty, a |-> a, b |-> b,
                     tol |-> tol, ret |-> "none"]
       \/ \E ty \in DefaultTypes, tb \in DefaultTypes :
            \E a \in GridValues(ty), b \in GridValues(tb) :
               ae = [fn |-> "default", ty |-> ty, tb |-> tb, a |-> a, b |-> b,
                     tol |-> 0, ret |-> "none"]

ApproxStep ==
    \/ CallApproxEqual
    \/ CallApproxEqualDefault

NextE == ApproxStep /\ Frame("approx")

SpecApprox == InitE /\ [][NextE]_vars

InitR ==
    /\ T \in {"int", "flt"}
    /\ rnd = [v |-> 0, unit |-> RoundToNearestCtor(T, 0), cu |-> 0]
    /\ last = [op |-> "ctor_policy", raw |-> 0]
    /\ res = NoRes
    /\ remByZero = FALSE
    /\ IdleExcept("rounded")

RoundedStep ==
    \/ Construct
    \/ ConstructDefault
    \/ ConstructPolicy
    \/ CopyAssign
    \/ AssignValue
    \/ AddAssign
    \/ SubAssign
    \/ MulAssign
    \/ DivAssign
    \/ PreInc
    \/ PreDec
    \/ PostInc
    \/ PostDec
    \/ AddAssignRounded
    \/ SubAssignRounded
    \/ MulAssignRounded
    \/ DivAssignRounded
    \/ ModAssignRounded
    \/ Plus
    \/ Minus
    \/ Times
    \/ Div
    \/ Mod
    \/ Negate
    \/ AbsRounded

NextR == RoundedStep /\ Frame("rounded")

SpecRounded == InitR /\ [][NextR]_vars

Spec == SpecRounded

\* explicit angle(const numeric_type& a): the angle after construction
InitA ==
    /\ IdleExcept("angle")
    /\ \E u \in AngleUnits, k \in NumberKinds :
         \E v \in AngleValues(k) : ang = MkAngle(u, k, v)
    /\ acall = [NoCall EXCEPT !.op = "ctor"]

AngleStep ==
    \/ ConvertConstruct
    \/ ConvertAssign
    \/ Normalize
    \/ CallAs
    \/ Compare
    \/ DegreesRadiansDegrees
    \/ DivideAngles
    \/ CallInterval
    \/ CallModTurn
    \/ CallTurnRemainder
    \/ CallLiteral

NextA == AngleStep /\ Frame("angle")

SpecAngle == InitA /\ [][NextA]_vars

\* explicit angle(const numeric_type& a): the angle after construction
InitN ==
    /\ IdleExcept("arith")
    /\ \E u \in AngleUnits, k \in NumberKinds :
         \E v \in ArithValues(k) : ang = MkAngle(u, k, v)
    /\ acall = [NoCall EXCEPT !.op = "ctor"]
    /\ nmut = 0

ArithStep ==
    \/ PlusAngle
    \/ MinusAngle
    \/ TimesFactor
    \/ FactorTimes
    \/ OverFactor
    \/ AddAssignAngle
    \/ SubAssignAngle
    \/ MulAssignFactor
    \/ DivAssignFactor

NextN == ArithStep /\ Frame("arith")

SpecArith == InitN /\ [][NextN]_vars

\* the ranges, the second end and the tolerance handed to approx_equal
InitG ==
    /\ IdleExcept("range")
    /\ \E x \in RangeSeqs, y \in RangeSeqs :
         \E e \in 0..Len(y), tol \in 0..1 :
            rg = [RgIdle EXCEPT !.x = x, !.y = y, !.end2 = e, !.tol = tol]

RangeStep ==
    \/ CallRange
    \/ CallRangeTwoEnds
    \/ LoopStep
    \/ LoopStepBeyond
    \/ LoopStepFault
    \/ LoopExit

NextG == RangeStep /\ Frame("range")

SpecRange == InitG /\ [][NextG]_vars

\* a constant constructed from a value
InitK ==
    /\ IdleExcept("constant")
    /\ \E x \in ConstValues :
         con = [NoConst EXCEPT !.op = "ctor", !.x = x, !.v = Constructed(x)]

ConstantStep ==
    \/ ConstValue
    \/ ConstConvert
    \/ ConstCopy
    \/ MakeConstant

NextK == ConstantStep /\ Frame("constant")

SpecConstant == InitK /\ [][NextK]_vars

\* rounded(const value_type& v, rounding_method rm): v_{corrected(v, rm)}
InitI ==
    /\ IdleExcept("nearest_int")
    /\ \E t \in {"int", "flt"}, v \in Values :
         rni = [t |-> t, v |-> RoundToNearestInt(t, v), op |-> "ctor", raw |-> v]

NearestIntStep ==
    \/ AssignValueInt
    \/ AddAssignInt
    \/ SubAssignInt
    \/ MulAssignInt
    \/ DivAssignInt
    \/ PreIncInt
    \/ PreDecInt

NextI == NearestIntStep /\ Frame("nearest_int")

SpecNearestInt == InitI /\ [][NextI]_vars

\* angle(const angle&) = default, rounded(const rounded&) = default: an
\* object and the object copy-constructed from it
InitC ==
    /\ IdleExcept("copy")
    /\ \E cls \in {"angle", "rounded"} :
         \E o \in CopyObjects(cls) :
            cp = [NoCp EXCEPT !.cls = cls, !.a = o, !.b = o, !.op = "copy"]

CopyStep ==
    \/ NormalizeOne
    \/ AddAssignOne
    \/ PreIncOne
    \/ RoundedAddAssignOne
    \/ RoundedPreIncOne
    \/ CopyAssignOne
    \/ ModTurnByValue
    \/ TurnRemainderByValue

NextC == CopyStep /\ Frame("copy")

SpecCopy == InitC /\ [][NextC]_vars

\* r = a with a policy of unit u > 0, and the bound b of the loop
InitL ==
    /\ IdleExcept("count")
    /\ T \in {"int", "flt"}
    /\ \E a \in Values, u \in 1..MaxUnit :
         /\ InT(RoundToNearest(RoundToNearestCtor(T, u), a))
         /\ rnd = Make(T, a, u)
    /\ last = [op |-> "ctor", raw |-> rnd.v]
    /\ res = NoRes
    /\ remByZero = FALSE
    /\ \E b \in {-MaxArg, MaxArg}, pc \in {"up", "down"} : cnt = [b |-> b, pc |-> pc]

CountStep ==
    \/ CountUp
    \/ CountDown
    \/ CountEnd

NextL == CountStep /\ Frame("count")

\* the loop keeps running while it can take a step
SpecCount == InitL /\ [][NextL]_vars /\ WF_vars(NextL)

\* no dual quaternion has been made yet
InitD == IdleExcept("dual") /\ dq = NoDq

DualStep ==
    \/ CallMakeDual
    \/ CallDualConj
    \/ CallFullConj
    \/ CallReal
    \/ CallImag

NextD == DualStep /\ Frame("dual")

SpecDual == InitD /\ [][NextD]_vars

\* linear_sequence<int>{first, step, last}; repeated_sequence{I},
\* repeated_sequence{I, n} and repeated_sequence{I, R, n}
InitS ==
    /\ IdleExcept("sequence")
    /\ \/ \E g \in LinearSequences : sq = linear_sequence(g)
       \/ \E i \in RepeatedParts : sq = repeated_sequence(i, i, 0)
       \/ \E i \in RepeatedParts, n \in 0..MaxRepeat : sq = repeated_sequence(i, i, n)
       \/ \E i \in RepeatedParts, r \in RepeatedParts, n \in 0..MaxRepeat :
            sq = repeated_sequence(i, r, n)

SequenceStep ==
    \/ LinearYield
    \/ LinearEnd
    \/ RepeatedYield
    \/ RepeatedEnd

NextS == SequenceStep /\ Frame("sequence")

SpecSequence == InitS /\ [][NextS]_vars

InitQ ==
    /\ IdleExcept("quantity")
    /\ \E x \in Quantities, y \in Quantities : qty = [NoQty EXCEPT !.x = x, !.y = y]

QuantityStep ==
    \/ PlusQuantity
    \/ MinusQuantity
    \/ TimesQuantity
    \/ CompareQuantity

NextQ == QuantityStep /\ Frame("quantity")

SpecQuantity == InitQ /\ [][NextQ]_vars

----------------------------------------------------------------------------
(* Properties of angle<>                                                   *)

TurnOfAng == Turn(ang.unit, ang.kind)

InClosedTurn(v, t) == LessEq(Zero, v) /\ LessEq(v, t)

\* C2 as stated: after normalize() the stored value lies in the half-open
\* range [0, turn()): 0 <= v < turn(), for every unit and every stored value
\* (a value of exactly one turn included).
C2_NormalizeHalfOpen ==
    acall.op = "normalize" => (LessEq(Zero, ang.v) /\ Less(ang.v, TurnOfAng))

\* C2 as amended: after normalize() the stored value lies in the closed
\* range [0, turn()]: 0 <= v <= turn().  A stored value already in that
\* range, exactly one turn included, is left as it is; an integral value
\* outside it is replaced by the value of [0, turn()) congruent to it
\* (degrees: 370 becomes 10, -10 becomes 350); the result is turn() only
\* when the stored value was turn(), or when the v_ + turn() of a negative
\* floating remainder rounds to turn().
C2_NormalizeClosedRange ==
    acall.op = "normalize" =>
        /\ InClosedTurn(ang.v, TurnOfAng)
        /\ InClosedTurn(acall.pre, TurnOfAng) => ang.v = acall.pre
        /\ IsIntegral(ang.kind) => (ang.v.m - acall.pre.m) % TurnOfAng.m = 0
        /\ (IsIntegral(ang.kind) /\ ~InClosedTurn(acall.pre, TurnOfAng))
               => Less(ang.v, TurnOfAng)
        /\ (ang.unit = "deg" /\ acall.pre = IntNum(370)) => ang.v = IntNum(10)
        /\ (ang.unit = "deg" /\ acall.pre = IntNum(-10)) => ang.v = IntNum(350)
        /\ Equal(ang.v, TurnOfAng) =>
               \/ Equal(acall.pre, TurnOfAng)
               \/ ~IsIntegral(ang.kind) /\ Less(acall.pre, Zero)

\* a stored value of exactly one turn (360 degrees) was normalized and stayed
C2_Witness ==
    /\ acall.op = "normalize"
    /\ ang = MkAngle("deg", "int", IntNum(360))
    /\ acall.pre = IntNum(360)

\* C3: as<OutTurn>() returns v_ unchanged when OutTurn is the turn policy of
\* the angle, and otherwise (OutTurn::value / Turn::value) * v_, the quotient
\* and then the product computed in the common type of the two number types
\* (so gons<int>{100} is 0 in degrees<int>: 360 / 400 is 0).
C3_AsDividesThenMultiplies ==
    acall.op = "as" =>
        LET ct == CommonType(acall.kind, ang.kind)
            out == Cast(ct, acall.kind, Turn(acall.unit, acall.kind))
            in == Cast(ct, ang.kind, TurnOfAng)
            v == Cast(ct, ang.kind, ang.v)
        IN  /\ (acall.unit = ang.unit /\ acall.kind = ang.kind)
                   => acall.num = ang.v
            /\ (acall.unit # ang.unit \/ acall.kind # ang.kind)
                   => acall.num = Mul(ct, Quot(ct, out, in), v)
            /\ (acall.unit # ang.unit /\ IsIntegral(ct))
                   => acall.num.m = CDiv(out.m, in.m) * ang.v.m
            /\ (ang = MkAngle("deg", "int", IntNum(90))
                    /\ acall.unit = "gon" /\ acall.kind = "int")
                   => acall.num = IntNum(90)

\* gons<int>{100}.as<degrees_turn<int>>() returned 0
C3_Witness ==
    /\ acall.op = "as"
    /\ ang = MkAngle("gon", "int", IntNum(100))
    /\ acall.unit = "deg" /\ acall.kind = "int"
    /\ acall.num = Zero

\* C4: each of a == b, a != b, a < b, a > b, a <= b, a >= b is that
\* comparison between the stored value of a and b.as<a's turn>(): only the
\* right-hand operand is converted (degrees<int>{90} > gons<int>{100} is
\* true, since the right-hand side is 0 in degrees<int>).
C4_ComparisonConvertsRightOperand ==
    acall.op \in CompareOps =>
        LET b == acall.arg
            ct == CommonType(ang.kind, b.kind)
            x == Cast(ct, ang.kind, ang.v)
            y == Cast(ct, AsType(b, ang.unit, ang.kind), As(b, ang.unit, ang.kind))
            ret == acall.flag = "true"
        IN  /\ acall.flag \in {"true", "false"}
            /\ acall.op = "==" => (ret <=> Equal(x, y))
            /\ acall.op = "!=" => (ret <=> ~Equal(x, y))
            /\ acall.op = "<"  => (ret <=> Less(x, y))
            /\ acall.op = ">"  => (ret <=> Less(y, x))
            /\ acall.op = "<=" => (ret <=> ~Less(y, x))
            /\ acall.op = ">=" => (ret <=> ~Less(x, y))
            /\ (ang = MkAngle("deg", "int", IntNum(90))
                    /\ b = MkAngle("gon", "int", IntNum(100)))
                   => (ret <=> acall.op \in {"!=", ">", ">="})

\* degrees<int>{90} > gons<int>{100} returned true
C4_Witness ==
    /\ acall.op = ">"
    /\ ang = MkAngle("deg", "int", IntNum(90))
    /\ acall.arg = MkAngle("gon", "int", IntNum(100))
    /\ acall.flag = "true"

\* |a - b|, exactly
Distance(a, b) ==
    LET al == Aligned(a, b) IN Canon(Abs(al[1] - al[2]), al[3])

\* the margin of "approximately equal" at the value x of type k: nothing for
\* an integral type, ToleranceScale * epsilon * |x| for a floating type
ToleranceScale == 4

Tolerance(k, x) ==
    IF IsIntegral(k) THEN Zero
    ELSE Canon(ToleranceScale * Abs(x.m), x.e + 1 - Precision)

\* C5: for every angle and every number type T, the angle converted to
\* degrees, then to radians, then back to degrees is approximately equal
\* (within tolerance) to the angle converted to degrees directly.
C5_RoundTripWithinTolerance ==
    acall.op = "roundtrip" =>
        LessEq(Distance(acall.num2, acall.num), Tolerance(acall.kind, acall.num))

\* x is an integer multiple of the turn t (x and t taken exactly)
IsTurnMultiple(x, t) == Fmod("flt", x, t).m = 0

\* the exact sum of a and b
ExactSum(a, b) == LET al == Aligned(a, b) IN Canon(al[1] + al[2], al[3])

\* C25 as stated: normalize() is idempotent and leaves in-range values
\* alone: a value already in [0, turn()] is not changed, applying
\* normalize() twice gives the stored value of applying it once, and the
\* value after normalize() differs from the value before by an integer
\* multiple of turn().
C25_NormalizeIdempotentExact ==
    acall.op = "normalize" =>
        /\ InClosedTurn(acall.pre, TurnOfAng) => ang.v = acall.pre
        /\ Normalized(ang) = ang.v
        /\ IsTurnMultiple(Distance(ang.v, acall.pre), TurnOfAng)

\* C25 as amended: normalize() is idempotent and leaves a value already in
\* [0, turn()] alone; the value after normalize() differs from the value
\* before by an integer multiple of turn() for an integral storage type and
\* for a floating value that was not negative; for a negative floating
\* value it is the floating-point number nearest to such a value (the
\* rounded sum of the exact remainder and turn()).
C25_NormalizeIdempotent ==
    acall.op = "normalize" =>
        /\ InClosedTurn(acall.pre, TurnOfAng) => ang.v = acall.pre
        /\ Normalized(ang) = ang.v
        /\ (IsIntegral(ang.kind) \/ ~Less(acall.pre, Zero)) =>
               IsTurnMultiple(Distance(ang.v, acall.pre), TurnOfAng)
        /\ (~IsIntegral(ang.kind) /\ Less(acall.pre, Zero)) =>
               \E w \in {ExactSum(Fmod("flt", acall.pre, TurnOfAng), TurnOfAng),
                          Fmod("flt", acall.pre, TurnOfAng)} :
                   /\ IsTurnMultiple(Distance(w, acall.pre), TurnOfAng)
                   /\ ang.v = RoundToPrecision(w.m, w.e)

\* -370 degrees normalized to 350, and 350 stays under normalize()
C25_Witness ==
    /\ acall.op = "normalize"
    /\ ang = MkAngle("deg", "int", IntNum(350))
    /\ acall.pre = IntNum(-370)

\* C26: equality of angles is symmetric across units: for angles a and b
\* of the same or of different units and scalar types, a == b holds if and
\* only if b == a holds, and a != b if and only if b != a.
C26_EqualitySymmetric ==
    acall.op \in {"==", "!="} =>
        (acall.flag = "true" <=> Compared(acall.op, acall.arg, ang))

\* the unit a literal suffix names
NamedUnit(sfx) ==
    CASE sfx = "_deg" -> "deg"
      [] sfx = "_arcmin" -> "arcmin"
      [] sfx = "_arcsec" -> "arcsec"
      [] sfx \in {"_rad", "_pi_rad"} -> "rad"
      [] sfx = "_gon" -> "gon"
      [] sfx = "_goncs" -> "gon_cs"
      [] sfx = "_gonccs" -> "gon_ccs"

\* C29: each angle literal suffix yields an angle of the unit its name
\* denotes, with the literal's number as raw value, the same unit for the
\* integer and the floating-point form: _deg degrees, _arcmin arc-minutes,
\* _arcsec arc-seconds, _rad radians, _gon gons, _goncs gon_cs, _gonccs
\* gon_ccs; _pi_rad gives radians with raw value x * pi.
C29_LiteralUnits ==
    acall.op = "literal" =>
        /\ acall.unit = NamedUnit(acall.flag)
        /\ acall.flag # "_pi_rad" => Equal(acall.num, acall.pre)
        /\ acall.flag = "_pi_rad" =>
               LessEq(Distance(acall.num, Mul("flt", acall.pre, Pi("flt"))),
                      Tolerance("flt", acall.num))

\* C14: a / b for two angles with b not zero is the ratio of the angles:
\* the divisor the code uses is not zero, and for two angles of one unit
\* and one storage type, integral or floating, the result is the ratio of
\* the raw values (90 degrees / 45 degrees = 2), within tolerance for a
\* floating type.
C14_AngleRatio ==
    (acall.op = "/" /\ acall.arg.v.m # 0) =>
        /\ acall.flag # "divzero"
        /\ SameTurn(acall.arg, ang.unit, ang.kind) =>
               LET ratio == Quot(ang.kind, ang.v, acall.arg.v)
               IN  LessEq(Distance(acall.pre, ratio), Tolerance(ang.kind, ratio))

\* the part p of a turn as a multiple of the 2^-Precision grid of exact
\* arithmetic: x = turn / p up to the truncation of an integral quotient
IsPartOfTurn(x, p, k) ==
    LET t == TurnOfAng
        px == [m |-> p * x.m, e |-> x.e]
    IN  IF IsIntegral(k)
        THEN Abs(px.m) <= t.m /\ t.m - Abs(px.m) < p /\ Sign(x.m) = Sign(px.m)
        ELSE Equal(px, t) \/ Equal(px, Neg(t))

C20_TurnRemainderIsTurnMinusModTurn ==
    acall.op = "turn_remainder" =>
        Equal(acall.arg.v, Add(ang.kind, TurnOfAng, Neg(ModTurn(ang).v)))

\* the value a binary operator of the numeric_type gives for the call
\* recorded in acall on the angle a
RawResult(a) ==
    CASE acall.op \in {"+", "+="} -> Add(a.kind, a.v, acall.pre)
      [] acall.op \in {"-", "-="} -> Add(a.kind, a.v, Neg(acall.pre))
      [] acall.op \in {"*", "f*", "*="} -> Mul(a.kind, a.v, acall.num)
      [] acall.op \in {"/", "/="} -> Quot(a.kind, a.v, acall.num)

\* C15: a + b and a - b of two angles of one unit give the angle of that
\* unit whose raw value is the sum or difference of the raw values; a * k
\* and a / k scale the raw value and k * a equals a * k; each compound form
\* (+=, -=, *=, /=) leaves the object equal to the result of the binary
\* operator; no conversion and no normalization takes place.
C15_RawArithmetic ==
    /\ acall.op \in {"+", "-", "*", "f*", "/"} =>
           acall.arg = MkAngle(ang.unit, ang.kind, RawResult(ang))
    /\ acall.op \in {"+=", "-=", "*=", "/="} =>
           ang = MkAngle(acall.arg.unit, acall.arg.kind, RawResult(acall.arg))

\* 350 + 100 = 450 degrees, past the turn and left there
C15_Witness ==
    /\ acall.op = "+"
    /\ ang.unit = "deg"
    /\ ang.v = IntNum(350)
    /\ acall.arg.v = IntNum(450)

----------------------------------------------------------------------------
(* Properties of rounded<> and round_to_nearest<>                          *)

MutatingOps ==
    {"ctor", "ctor_policy", "copy", "assign", "+=", "-=", "*=", "/=",
     "++", "--", "++(int)", "--(int)", "+=r", "-=r", "*=r", "/=r", "%=r"}

\* the operations that hand a raw value to the rounding policy
PolicyOps == MutatingOps \ {"ctor_policy", "copy"}

IsMultiple(v, u) == \E k \in (-Abs(v))..Abs(v) : v = k * u

\* C1: after every mutating operation (construction, assignment from a raw
\* value, copy/move assignment, += -= *= /= %=, ++ and --) the stored value
\* is in corrected form: Policy(v) = v, that is, v is a multiple of the unit.
C1_StoredValueCorrected ==
    /\ RoundToNearest(rnd.unit, rnd.v) = rnd.v
    /\ IsMultiple(rnd.v, rnd.unit)

\* C1 witness: a compound assignment whose raw result the policy had to
\* correct.
C1_Witness ==
    /\ last.op \in {"+=", "*=", "++", "-=r", "%=r"}
    /\ last.raw # rnd.v
    /\ rnd.unit > 1

\* C6: the value stored for a raw value x under unit u is the multiple of u
\* nearest to x; exactly halfway between two multiples the one with the even
\* quotient is taken: with u = 2 the input 7 gives 8 and the input 5 gives 4.
C6_NearestMultipleHalfEven ==
    last.op \in PolicyOps =>
        /\ IsMultiple(rnd.v, rnd.unit)
        /\ 2 * Abs(rnd.v - last.raw) <= rnd.unit
        /\ 2 * Abs(rnd.v - last.raw) = rnd.unit => (rnd.v \div rnd.unit) % 2 = 0
        /\ (T = "int" /\ rnd.unit = 2 /\ last.raw = 7) => rnd.v = 8
        /\ (T = "int" /\ rnd.unit = 2 /\ last.raw = 5) => rnd.v = 4

\* C6 witness: a raw value exactly halfway between two multiples of the unit
\* was rounded (7 with unit 2).
C6_Witness ==
    /\ T = "int"
    /\ last.op = "ctor"
    /\ rnd.unit = 2
    /\ last.raw = 7
    /\ rnd.v = 8

\* C7: a policy constructed with a unit <= 0 uses 1 (integral T) or machine
\* epsilon (floating T, one grid step); the unit in use is always > 0, no
\* remainder by zero is ever computed, and for integral T such a policy
\* leaves every value as it is.
C7_NonPositiveUnitSubstituted ==
    /\ rnd.unit > 0
    /\ ~remByZero
    /\ rnd.cu > 0 => rnd.unit = rnd.cu
    /\ (rnd.cu <= 0 /\ T = "int") => rnd.unit = 1
    /\ (rnd.cu <= 0 /\ T = "flt") => (rnd.unit = 1 /\ rnd.unit < One(T))
    /\ (rnd.cu <= 0 /\ T = "int" /\ last.op \in PolicyOps) => rnd.v = last.raw

\* C7 witness: an integral object whose policy was constructed with a
\* negative unit has rounded an odd raw value.
C7_Witness ==
    /\ T = "int"
    /\ rnd.cu < 0
    /\ last.op = "assign"
    /\ last.raw = 3

\* C8: binary + - * / % on rounded values return the plain arithmetic result
\* of the stored value(s), no policy applied (8 + 1 is 9 under unit 2); the
\* policy acts when a result is stored (after += the value is a multiple of
\* the unit).
C8_BinaryOperatorsPlain ==
    /\ res.op = "+" => res.val = res.a + res.b
    /\ res.op = "-" => res.val = res.a - res.b
    /\ (res.op = "*" /\ T = "int") => res.val = res.a * res.b
    /\ (res.op = "*" /\ T = "flt") =>
            2 * Abs(res.val * Scale(T) - res.a * res.b) <= Scale(T)
    /\ (res.op = "/" /\ T = "int") =>
            /\ Abs(res.a - res.val * res.b) < Abs(res.b)
            /\ Abs(res.val * res.b) <= Abs(res.a)
    /\ (res.op = "/" /\ T = "flt") =>
            2 * Abs(res.val * res.b - res.a * Scale(T)) <= Abs(res.b)
    /\ res.op = "%" =>
            /\ Abs(res.val) < Abs(res.b)
            /\ res.val * res.a >= 0
            /\ IsMultiple(res.a - res.val, res.b)
    /\ last.op \in {"+=", "-=", "*=", "/=", "+=r", "-=r", "*=r", "/=r", "%=r"}
            => IsMultiple(rnd.v, rnd.unit)

\* C8 witness: x with unit 2 holds 8 and x + 1 returned 9.
C8_Witness ==
    /\ T = "int"
    /\ rnd.unit = 2
    /\ rnd.v = 8
    /\ res.op = "+"
    /\ res.a = 8
    /\ res.b = 1
    /\ res.val = 9

\* C27: unary minus and abs keep the rounding policy of their operand: for
\* a rounded value x whose policy was constructed with unit u, the objects
\* returned by -x and abs(x) carry the same unit u, so every later mutating
\* operation on the result stores a multiple of u.
C27_NegateAbsKeepPolicy ==
    res.op \in {"neg", "abs"} =>
        /\ res.b = rnd.unit
        /\ IsMultiple(res.val, rnd.unit)

\* C28: repeated increment makes progress: starting from any rounded value
\* with a policy of unit u > 0, applying ++ repeatedly eventually takes the
\* stored value past any given bound (and -- below any bound), so a counting
\* loop for(r = a; r < b; ++r) terminates.
C28_CountingLoopTerminates == <>(cnt.pc = "done")

----------------------------------------------------------------------------
(* Properties of approx_equal                                              *)

\* what the call returned, once it has returned
AeReturned == ae.fn = "explicit" /\ ae.ret # "none"

AeRet == ae.ret = "true"

\* C9: approx_equal(a, b, tol) is the two-sided range check with both bounds
\* inclusive: it returns true exactly when b - tol <= a <= b + tol (b - tol
\* and b + tol as the operand type computes them; for signed operands these
\* are the mathematical difference and sum), and it returns false whenever
\* |a - b| > tol.
C9_TwoSidedRangeCheck ==
    AeReturned =>
        /\ ae.ty = "int" =>
              (AeRet <=> (ae.b - ae.tol <= ae.a /\ ae.a <= ae.b + ae.tol))
        /\ ae.ty = "unsigned" =>
              (AeRet <=> /\ (ae.b - ae.tol) % Pow2(UWidth) <= ae.a
                         /\ ae.a <= (ae.b + ae.tol) % Pow2(UWidth))
        /\ Abs(ae.a - ae.b) > ae.tol => ~AeRet
        /\ (ae.ty = "int" /\ ae.tol >= 0 /\ ae.a = ae.b + ae.tol) => AeRet
        /\ (ae.ty = "int" /\ ae.tol >= 0 /\ ae.a = ae.b - ae.tol) => AeRet

\* C9 witness: a call with a exactly on the upper bound b + tol returned true.
C9_Witness ==
    /\ ae.ty = "int"
    /\ ae.tol > 0
    /\ ae.a = ae.b + ae.tol
    /\ AeRet

\* C10: for unsigned operands approx_equal(a, b, tol) returns true exactly
\* when the mathematical |a - b| <= tol, whatever b - tol and b + tol wrap to.
C10_UnsignedExact ==
    (ae.ty = "unsigned" /\ AeReturned) =>
        (AeRet <=> Abs(ae.a - ae.b) <= ae.tol)

Max(p, q) == IF p < q THEN q ELSE p

\* C11: approx_equal(a, b) uses the larger of the default tolerances of the
\* two operand types: it returns true exactly when
\* |a - b| <= max(tolerance<T1>, tolerance<T2>), whichever operand has the
\* larger tolerance.
C11_LargerDefaultTolerance ==
    (ae.fn = "default" /\ ae.ret # "none") =>
        (AeRet <=> Abs(ae.a - ae.b)
                      <= Max(DefaultTolerance(ae.ty), DefaultTolerance(ae.tb)))

\* a call whose operands differ by the larger tolerance (that of the second
\* operand type), which is more than the smaller one, returned true
C11_Witness ==
    /\ ae.fn = "default" /\ AeRet
    /\ ae.ty = "dbl" /\ ae.tb = "flt"
    /\ Abs(ae.a - ae.b) = DefaultTolerance("flt")

----------------------------------------------------------------------------
(* Properties of approx_equal on two ranges                                *)

\* the length of the second range of the call: up to the second end handed
\* in, or the whole second container when the call takes no second end
SecondLength == IF rg.fn = "five" THEN rg.end2 ELSE Len(rg.y)

\* C12: the range overloads stop at the shorter range: with a second range
\* of length m, no element at an index >= m from begin2 is ever read.
C12_StopsAtShorterRange == Len(rg.seen) <= SecondLength

\* the first index of x whose element differs from the value read at that
\* index by more than the tolerance (Len(x) + 1 if there is none)
FirstMismatch ==
    LET bad == {k \in 1..Len(rg.seen) : Abs(rg.x[k] - rg.seen[k]) > rg.tol}
    IN  IF bad = {} THEN Len(rg.x) + 1
        ELSE CHOOSE k \in bad : \A j \in bad : k <= j

\* C13: the overload with two ends ignores the second end: like the overload
\* with one end it examines the index positions of the first range in
\* order, returns false at the first index i with |x_i - y_i| > tolerance
\* and true if there is none (true for an empty first range), whatever the
\* second end is.
C13_SecondEndIgnored ==
    rg.pc = "done" =>
        /\ rg.ret = "false" =>
               /\ Len(rg.seen) = FirstMismatch
               /\ FirstMismatch <= Len(rg.x)
        /\ rg.ret = "true" =>
               /\ Len(rg.seen) = Len(rg.x)
               /\ FirstMismatch = Len(rg.x) + 1
        /\ \A k \in 1..Len(rg.seen) :
               k <= Len(rg.y) => rg.seen[k] = rg.y[k]
        /\ Len(rg.x) = 0 => rg.ret = "true"

\* a call with two ends returned false for a mismatch at an index past the
\* second end
C13_Witness ==
    /\ rg.pc = "done" /\ rg.fn = "five" /\ rg.ret = "false"
    /\ rg.end2 < Len(rg.seen)
    /\ Len(rg.seen) <= Len(rg.y)

----------------------------------------------------------------------------
(* Properties of rounded<T, round_to_nearest_int>                          *)

\* C19: with an integral storage type the nearest-integer policy is a
\* no-op: round_to_nearest_int returns x for every integer x, so a
\* rounded<int, round_to_nearest_int> constructed from 7 holds 7 and every
\* mutating operation stores exactly the raw arithmetic result.
C19_IntegralNearestIntNoOp ==
    IsIntegral(rni.t) =>
        /\ rni.v = rni.raw
        /\ \A x \in Values : RoundToNearestInt(rni.t, x) = x

\* the raw result 7 of += stored as 7
C19_Witness ==
    /\ IsIntegral(rni.t)
    /\ rni.op = "+="
    /\ rni.raw = 7
    /\ rni.v = 7

----------------------------------------------------------------------------
(* Properties of copies                                                    *)

\* C18: copies are independent values: after copying an angle or a rounded
\* object, a mutating operation on one of the two objects (normalize,
\* compound assignment, increment, assignment) leaves the other object
\* unchanged; mod_turn(a) and turn_remainder(a), which take their argument
\* by value, leave the caller's angle unchanged.
C18_CopiesIndependent ==
    [][/\ cp'.op \in {"normalize", "+=", "++", "="} =>
              /\ cp'.tgt = "a" => cp'.b = cp.b
              /\ cp'.tgt = "b" => cp'.a = cp.a
       /\ cp'.op \in {"mod_turn", "turn_remainder"} =>
              /\ cp'.a = cp.a
              /\ cp'.b = cp.b]_vars

\* the original normalized to 350 while its copy still holds -370, and
\* mod_turn of the copy returned 350 and left the copy at -370
C18_Witness ==
    /\ cp.cls = "angle"
    /\ cp.op = "mod_turn" /\ cp.tgt = "b"
    /\ cp.a.unit = "deg" /\ cp.a.kind = "int"
    /\ cp.a.v = IntNum(350)
    /\ cp.b.v = IntNum(-370)
    /\ cp.ret.v = IntNum(350)
    /\ cp.n = 1

----------------------------------------------------------------------------
(* Properties of constant<T>                                               *)

\* C17: a constant<T> keeps its initial value: after construction from x,
\* value() and the conversion to T return x in every reachable state, no
\* operation changes the stored value, and a copy of a constant holds the
\* value of its source (as does the constant make_constant(x) returns).
C17_ConstantKeepsValue ==
    /\ con.v = con.x
    /\ con.op \in {"value", "convert"} => con.ret = con.x
    /\ con.op = "copy" => con.made = con.x
    /\ con.op = "make_constant" => con.made = con.ret

\* a copy made after other calls on the constant
C17_Witness ==
    /\ con.op = "copy"
    /\ con.x = -MaxConst
    /\ con.made = -MaxConst
    /\ con.ret = 3

----------------------------------------------------------------------------
(* Properties of dual_quaternion<>                                         *)

\* the quaternion with every component of q negated
Negated(q) == Quaternion(-q.real, -q.imag_i, -q.imag_j, -q.imag_k)

\* C30: real(make_dual(r, d)) == r and imag(make_dual(r, d)) == d;
\* dual_conj(q) has the real part of q and the negated dual part of q;
\* dual_conj(dual_conj(q)) == q and full_conj(full_conj(q)) == q
C30_DualParts ==
    /\ dq.hist = <<>> /\ dq.out.op = "real" => dq.out.val = dq.r
    /\ dq.hist = <<>> /\ dq.out.op = "imag" => dq.out.val = dq.d
    /\ dq.hist = <<"dual_conj">> /\ dq.out.op = "real" => dq.out.val = dq.r
    /\ dq.hist = <<"dual_conj">> /\ dq.out.op = "imag" => dq.out.val = Negated(dq.d)
    /\ dq.hist = <<"dual_conj", "dual_conj">> => dq.q = dq.made
    /\ dq.hist = <<"full_conj", "full_conj">> => dq.q = dq.made

C30_Witness ==
    /\ dq.hist = <<"dual_conj">>
    /\ dq.out.op = "imag"
    /\ dq.r.imag_i # 0
    /\ dq.d.imag_j # 0
    /\ dq.d.real # 0

----------------------------------------------------------------------------
(* Properties of the sequence generators                                   *)

\* floor(a / b), b # 0
FloorDiv(a, b) == IF b > 0 THEN a \div b ELSE (-a) \div (-b)

\* floor((last - first) / step) + 1
Length(g) == FloorDiv(g.uBound - g.cur, g.stride) + 1

\* the element of g at position i, counted from 0
ElementAt(g, i) == g.cur + i * g.stride

\* C21: a linear sequence yields first, first + step, first + 2 * step, ...;
\* once the loop has ended it has produced floor((last - first) / step) + 1
\* elements, as many as size() said, the last of them being last when last
\* is a whole number of steps away from first
C21_LinearSequence ==
    sq.kind = "linear" =>
        /\ sq.count > 0 =>
             /\ sq.front = sq.I.cur
             /\ sq.back = ElementAt(sq.I, sq.count - 1)
        /\ sq.pc = "done" =>
             /\ sq.count = Length(sq.I)
             /\ sq.count = sq.size
             /\ sq.I.cur = sq.I.uBound => sq.count = 1
             /\ (sq.I.uBound - sq.I.cur) % Abs(sq.I.stride) = 0 => sq.back = sq.I.uBound

\* 0, 2, ..., 20 and 20, 18, ..., 0: 11 elements each
C21_Witness ==
    /\ sq.kind = "linear"
    /\ sq.pc = "done"
    /\ sq.count = 11
    /\ sq.front = 20
    /\ sq.back = 0

\* C22: a repeated sequence yields I once and then n passes of R:
\* |I| + n * |R| elements, the first being the first of I, each one the
\* element of its pass, the last being the last of the final pass
C22_RepeatedSequence ==
    sq.kind = "repeated" =>
        /\ sq.count > 0 =>
             /\ sq.front = sq.I.cur
             /\ sq.count <= Length(sq.I) + sq.n * Length(sq.R)
             /\ sq.back = IF sq.count <= Length(sq.I)
                          THEN ElementAt(sq.I, sq.count - 1)
                          ELSE ElementAt(sq.R, (sq.count - Length(sq.I) - 1) % Length(sq.R))
        /\ sq.pc = "done" =>
             /\ sq.count = Length(sq.I) + sq.n * Length(sq.R)
             /\ sq.back = IF sq.n = 0 THEN sq.I.uBound ELSE sq.R.uBound

\* I = 8..1, R = 5..1, n = 2: 18 elements
C22_Witness ==
    /\ sq.kind = "repeated"
    /\ sq.pc = "done"
    /\ sq.I = make_linear_sequence(8, -1, 1)
    /\ sq.R = make_linear_sequence(5, -1, 1)
    /\ sq.n = 2
    /\ sq.count = 18
    /\ sq.back = 1

----------------------------------------------------------------------------
(* Properties of quantity<>                                                *)

IsFinite(x) == ~x.inf

\* the finite quantity of value n, of whatever underlying type
IsCount(x, n) == ~x.inf /\ x.v = n

\* C23: x - y is 0 when y >= x (y infinite included), the difference when
\* both are finite and y < x, infinite when x is infinite and y finite;
\* it is never negative
C23_SubtractionSaturates ==
    qty.op = "-" =>
        /\ qty.y.inf => IsCount(qty.out, 0)
        /\ IsFinite(qty.x) /\ IsFinite(qty.y) /\ qty.y.v >= qty.x.v => IsCount(qty.out, 0)
        /\ IsFinite(qty.x) /\ IsFinite(qty.y) /\ qty.y.v < qty.x.v =>
             IsCount(qty.out, qty.x.v - qty.y.v)
        /\ qty.x.inf /\ IsFinite(qty.y) => qty.out.inf
        /\ qty.out.v >= 0

\* f - e with f = quantity<long long>::infinity(), e = quantity<int>::infinity()
C23_Witness ==
    /\ qty.op = "-"
    /\ qty.x.inf /\ qty.x.t = "long long"
    /\ qty.y.inf /\ qty.y.t = "int"
    /\ IsCount(qty.out, 0)

\* C24: x + y is infinite when an operand is, x * y is infinite when an
\* operand is and the other is not 0, 0 * infinity is 0, finite operands give
\* the sum and the product; two infinities are equal whatever their
\* underlying types, and a finite quantity is less than infinity
C24_InfinityAbsorbs ==
    /\ qty.op = "+" =>
         IF qty.x.inf \/ qty.y.inf THEN qty.out.inf
         ELSE IsCount(qty.out, qty.x.v + qty.y.v)
    /\ qty.op = "*" =>
         IF IsCount(qty.x, 0) \/ IsCount(qty.y, 0) THEN IsCount(qty.out, 0)
         ELSE IF qty.x.inf \/ qty.y.inf THEN qty.out.inf
         ELSE IsCount(qty.out, qty.x.v * qty.y.v)
    /\ qty.op = "==" /\ qty.x.inf /\ qty.y.inf => qty.flag = "true"
    /\ qty.op = "<" /\ IsFinite(qty.x) /\ qty.y.inf => qty.flag = "true"
    /\ qty.op = "<" /\ qty.x.inf => qty.flag = "false"

\* a * e with a = quantity<int>{0}, e = quantity<int>::infinity()
C24_Witness ==
    /\ qty.op = "*"
    /\ IsCount(qty.x, 0)
    /\ qty.y.inf
    /\ IsCount(qty.out, 0)

============================================================================
